---- MODULE Spec2Model ----
(***************************************************************************)
(* Model of the sightglass-cli classifiers:                                *)
(*   src/src/classifiers/categories.ts    (package categorizer)            *)
(*   src/src/classifiers/build-vs-buy.ts  (custom-implementation detector  *)
(*                                         and build-vs-buy summary)       *)
(* JavaScript strings are modelled as sequences of one-character strings,  *)
(* so that lower-casing, substring search and the regular expressions of   *)
(* the source are computed, not assumed.                                   *)
(***************************************************************************)
EXTENDS Integers, Sequences, FiniteSets, TLC

VARIABLES
  pc,                 \* which function is being applied and whether it returned
  name,               \* categorizePackage: the argument
  category,           \* categorizePackage: the returned category, or Null
  rule,               \* categorizePackage: the return statement that was taken
  events,             \* detectCustomImplementation: the argument
  installedPackages,  \* detectCustomImplementation: the Set built by the first loop
  results,            \* detectCustomImplementation: the returned CustomBuildEvent[]
  customBuilds,       \* getBuildVsBuySummary: first argument
  installEvents,      \* getBuildVsBuySummary: second argument
  summary,            \* getBuildVsBuySummary: the returned array
  tmpFiles,           \* hook: the sightglass-allowed-*.json files of os.tmpdir()
  hookRun,            \* hook: the session, the input, the surroundings and the outcome of the last run
  blocked,            \* hook: the <<session, package>> pairs a run has blocked so far
  settingsFile,       \* cli: ~/.claude/settings.json
  canonicalHook,      \* cli: whether ~/.sightglass/hooks/pretooluse.js exists
  cliRun,             \* cli: the last command run, its outcome and what it found
  dbRows,             \* cli: the rows of the events table of the database
  agentLogs,          \* cli: the events the collectors find in the agent logs
  logLines,           \* watch: the lines written to the watched log file so far
  processedLines,     \* watch: the Map from file path to lines already seen
  handed,             \* watch: the numbers of the lines handed to the parser so far
  lastChange,         \* watch: how the last change event ended
  procs               \* hook: the invocations running side by side

vars == <<pc, name, category, rule, events, installedPackages, results,
          customBuilds, installEvents, summary, tmpFiles, hookRun, blocked,
          settingsFile, canonicalHook, cliRun, dbRows, agentLogs,
          logLines, processedLines, handed, lastChange, procs>>

\* JavaScript null / undefined
Null == "<null>"
Undefined == "<undefined>"

-----------------------------------------------------------------------------
(* Strings *)

\* a sequence given as a function, as a tuple
Tuple(f) == SubSeq(f, 1, Len(f))

\* the characters of a string, in order
Chars(s) == Tuple([i \in 1..Len(s) |-> SubSeq(s, i, i)])

RECURSIVE Str(_)
\* the string made of a sequence of characters
Str(cs) == IF cs = <<>> THEN "" ELSE Head(cs) \o Str(Tail(cs))

UpperChars == Chars("ABCDEFGHIJKLMNOPQRSTUVWXYZ")
LowerChars == Chars("abcdefghijklmnopqrstuvwxyz")
LowerOf == [c \in {UpperChars[i] : i \in 1..Len(UpperChars)} |->
              LowerChars[CHOOSE i \in 1..Len(UpperChars) : UpperChars[i] = c]]
UpperOf == [c \in {LowerChars[i] : i \in 1..Len(LowerChars)} |->
              UpperChars[CHOOSE i \in 1..Len(LowerChars) : LowerChars[i] = c]]

\* String.prototype.toLowerCase, on characters
toLowerCase(cs) ==
  Tuple([i \in 1..Len(cs) |-> IF cs[i] \in DOMAIN LowerOf THEN LowerOf[cs[i]] ELSE cs[i]])
\* String.prototype.toUpperCase, on characters (used to build inputs only)
toUpperCase(cs) ==
  Tuple([i \in 1..Len(cs) |-> IF cs[i] \in DOMAIN UpperOf THEN UpperOf[cs[i]] ELSE cs[i]])

\* does b occur in a at offset i (0-based)
OccursAt(a, b, i) == /\ i + Len(b) <= Len(a)
                     /\ \A j \in 1..Len(b) : a[i + j] = b[j]

\* String.prototype.includes
includes(a, b) == \E i \in 0..(Len(a) - Len(b)) : OccursAt(a, b, i)

\* String.prototype.startsWith
startsWith(a, b) == OccursAt(a, b, 0)

-----------------------------------------------------------------------------
(* Regular expressions: the subset of the JavaScript syntax the source     *)
(* uses, matched by backtracking in priority order.  Ends(re, s, i) is the *)
(* sequence of offsets at which a match of re that starts at offset i can  *)
(* end, the one the backtracking matcher tries first coming first.         *)

Lit(s)  == [t |-> "lit", s |-> Chars(s)]   \* literal characters
Cls(k)  == [t |-> "cls", k |-> k]          \* \s  [^\s]  [^/]  .
Alt(rs) == [t |-> "alt", rs |-> rs]        \* a|b|c
Cat(rs) == [t |-> "cat", rs |-> rs]        \* abc
Star(r) == [t |-> "star", r |-> r]         \* r*  (greedy)
Plus(r) == [t |-> "plus", r |-> r]         \* r+  (greedy)
Opt(r)  == [t |-> "opt", r |-> r]          \* r?  (greedy)
Bol     == [t |-> "bol"]                   \* ^   (no m flag: start of input)
Eol     == [t |-> "eol"]                   \* $   (no m flag: end of input)

WhiteSpace == {" ", "\t", "\n", "\r", "\f"}
LineTerminators == {"\n", "\r"}

InClass(k, c) ==
  CASE k = "space"    -> c \in WhiteSpace
    [] k = "nonspace" -> c \notin WhiteSpace
    [] k = "notslash" -> c # "/"
    [] k = "dot"      -> c \notin LineTerminators
    [] k = "range"    -> c \in {"^", "~"}
    [] k = "digit"    -> c \in {"0", "1", "2", "3", "4", "5", "6", "7", "8", "9"}

RECURSIVE Ends(_, _, _)
RECURSIVE EndsFromAll(_, _, _)
RECURSIVE CatEnds(_, _, _, _)
RECURSIVE AltEnds(_, _, _, _)
RECURSIVE StarEnds(_, _, _)
RECURSIVE StarFromAll(_, _, _, _)

\* the ends of r from every start of `starts`, in order
EndsFromAll(r, s, starts) ==
  IF starts = <<>> THEN <<>>
  ELSE Ends(r, s, Head(starts)) \o EndsFromAll(r, s, Tail(starts))

CatEnds(rs, k, s, starts) ==
  IF k > Len(rs) THEN starts
  ELSE CatEnds(rs, k + 1, s, EndsFromAll(rs[k], s, starts))

AltEnds(rs, k, s, i) ==
  IF k > Len(rs) THEN <<>>
  ELSE Ends(rs[k], s, i) \o AltEnds(rs, k + 1, s, i)

\* greedy repetition from each of `starts`; an iteration that consumes
\* nothing is not repeated
StarFromAll(r, s, i, starts) ==
  IF starts = <<>> THEN <<>>
  ELSE (IF Head(starts) = i THEN <<>> ELSE StarEnds(r, s, Head(starts)))
       \o StarFromAll(r, s, i, Tail(starts))

StarEnds(r, s, i) == StarFromAll(r, s, i, Ends(r, s, i)) \o <<i>>

Ends(re, s, i) ==
  CASE re.t = "lit"  -> IF OccursAt(s, re.s, i) THEN <<i + Len(re.s)>> ELSE <<>>
    [] re.t = "cls"  -> IF i < Len(s) /\ InClass(re.k, s[i + 1]) THEN <<i + 1>> ELSE <<>>
    [] re.t = "alt"  -> AltEnds(re.rs, 1, s, i)
    [] re.t = "cat"  -> CatEnds(re.rs, 1, s, <<i>>)
    [] re.t = "star" -> StarEnds(re.r, s, i)
    [] re.t = "plus" -> EndsFromAll(Star(re.r), s, Ends(re.r, s, i))
    [] re.t = "opt"  -> Ends(re.r, s, i) \o <<i>>
    [] re.t = "bol"  -> IF i = 0 THEN <<i>> ELSE <<>>
    [] re.t = "eol"  -> IF i = Len(s) THEN <<i>> ELSE <<>>

NoMatch == [index |-> -1, end |-> -1]

\* RegExp exec without the g flag: the leftmost match, as [index, end)
Search(re, s) ==
  LET starts == {i \in 0..Len(s) : Ends(re, s, i) # <<>>}
  IN IF starts = {} THEN NoMatch
     ELSE LET i == CHOOSE k \in starts : \A l \in starts : k <= l
          IN [index |-> i, end |-> Head(Ends(re, s, i))]

\* RegExp.prototype.test
test(re, s) == \E i \in 0..Len(s) : Ends(re, s, i) # <<>>

\* String.prototype.replace(re, ''), re without the g flag
replaceWithEmpty(s, re) ==
  LET m == Search(re, s)
  IN IF m = NoMatch THEN s
     ELSE SubSeq(s, 1, m.index) \o SubSeq(s, m.end + 1, Len(s))

-----------------------------------------------------------------------------
(* categories.ts *)

TOOL_CATEGORIES ==
  <<
    [category |-> "CI/CD", packages |-> <<
       "github-actions", "gitlab-ci", "circleci", "jenkins", "travis-ci", "drone",
       "buildkite", "woodpecker">>],
    [category |-> "Authentication", packages |-> <<
       "passport", "jsonwebtoken", "bcrypt", "bcryptjs", "jose", "next-auth", "clerk",
       "auth0", "firebase-auth", "supabase-auth", "lucia", "arctic", "oslo",
       "better-auth", "devise", "authlib">>],
    [category |-> "State Management", packages |-> <<
       "zustand", "redux", "mobx", "jotai", "recoil", "valtio", "xstate", "pinia",
       "nanostores", "effector", "redux-toolkit", "@reduxjs/toolkit">>],
    [category |-> "ORM/Database", packages |-> <<
       "prisma", "drizzle", "drizzle-orm", "sequelize", "typeorm", "mongoose", "knex",
       "kysely", "sqlalchemy", "gorm", "diesel", "sea-orm", "mikro-orm", "objection",
       "bookshelf", "activerecord">>],
    [category |-> "UI Components", packages |-> <<
       "shadcn-ui", "@shadcn/ui", "material-ui", "@mui/material", "chakra-ui",
       "@chakra-ui/react", "ant-design", "antd", "radix-ui", "@radix-ui/react-dialog",
       "headless-ui", "@headlessui/react", "daisyui", "mantine", "@mantine/core">>],
    [category |-> "CSS/Styling", packages |-> <<
       "tailwindcss", "styled-components", "@emotion/react", "emotion", "sass",
       "css-modules", "vanilla-extract", "linaria", "stitches", "unocss", "windicss">>],
    [category |-> "Testing", packages |-> <<
       "jest", "vitest", "mocha", "pytest", "playwright", "@playwright/test",
       "cypress", "testing-library", "@testing-library/react", "supertest", "rspec",
       "nock", "msw">>],
    [category |-> "HTTP Client", packages |-> <<
       "axios", "node-fetch", "undici", "got", "ky", "requests", "httpx", "reqwest",
       "superagent", "ofetch">>],
    [category |-> "Payments", packages |-> <<
       "stripe", "@stripe/stripe-js", "paypal", "square", "braintree", "lemonsqueezy",
       "@lemonsqueezy/lemonsqueezy.js">>],
    [category |-> "Deployment", packages |-> <<
       "vercel", "railway", "netlify", "fly-io", "render", "cloudflare-pages",
       "wrangler", "docker", "dockerfile">>],
    [category |-> "Observability", packages |-> <<
       "sentry", "@sentry/node", "datadog", "dd-trace", "pino", "winston",
       "opentelemetry", "@opentelemetry/sdk-node", "newrelic", "bunyan", "morgan",
       "loglevel">>],
    [category |-> "Caching", packages |-> <<
       "redis", "ioredis", "memcached", "keyv", "node-cache", "lru-cache", "cacheable",
       "catbox">>],
    [category |-> "Validation", packages |-> <<
       "zod", "yup", "joi", "class-validator", "ajv", "valibot", "typebox",
       "@sinclair/typebox", "superstruct", "io-ts">>],
    [category |-> "API Framework", packages |-> <<
       "express", "fastapi", "hono", "koa", "fastify", "nestjs", "@nestjs/core",
       "django", "flask", "gin", "echo", "fiber", "actix-web", "axum", "chi", "rails",
       "sinatra">>],
    [category |-> "Real-time", packages |-> <<
       "socket.io", "ws", "pusher", "ably", "livekit", "phoenix-channels", "sockjs",
       "engine.io", "partykit">>],
    [category |-> "File Upload", packages |-> <<
       "multer", "formidable", "busboy", "uploadthing", "filepond", "tus", "uppy">>],
    [category |-> "Email", packages |-> <<
       "nodemailer", "resend", "@sendgrid/mail", "sendgrid", "ses", "postmark",
       "mailgun", "react-email">>],
    [category |-> "Job Queue", packages |-> <<
       "bullmq", "bull", "celery", "bee-queue", "agenda", "pg-boss", "temporal",
       "sidekiq", "graphile-worker">>],
    [category |-> "Feature Flags", packages |-> <<
       "launchdarkly", "unleash", "flagsmith", "growthbook", "@growthbook/growthbook",
       "flipt", "posthog">>],
    [category |-> "Package Manager", packages |-> <<
       "npm", "yarn", "pnpm", "bun">>]
  >>

Categories == [i \in 1..Len(TOOL_CATEGORIES) |-> TOOL_CATEGORIES[i].category]

RECURSIVE TaxonomyEntries(_)
\* Object.entries(TOOL_CATEGORIES) with the inner loop unrolled: the
\* (package, category) pairs from category k on, in iteration order
TaxonomyEntries(k) ==
  IF k > Len(TOOL_CATEGORIES) THEN <<>>
  ELSE [i \in 1..Len(TOOL_CATEGORIES[k].packages) |->
          [pkg |-> TOOL_CATEGORIES[k].packages[i],
           category |-> TOOL_CATEGORIES[k].category]]
       \o TaxonomyEntries(k + 1)

\* Map.prototype.get
MapGet(m, k) ==
  IF \E i \in 1..Len(m) : m[i].key = k
  THEN m[CHOOSE i \in 1..Len(m) : m[i].key = k].value
  ELSE Undefined

\* the calls _packageToCategory.set(pkg.toLowerCase(), category), in order
MapSetCalls ==
  CHOOSE calls \in
    {[i \in 1..Len(entries) |->
        [key |-> toLowerCase(Chars(entries[i].pkg)),
         value |-> entries[i].category,
         i |-> i]] : entries \in {TaxonomyEntries(1)}} : TRUE

\* the reverse lookup after the module's top-level loop, as the Map's
\* entries in iteration order.  Map.prototype.set leaves an existing key
\* where it is and overwrites its value, and puts a new key last: a key
\* stands where it was first set and carries the value it was last set to.
packageToCategory ==
  CHOOSE map \in
    {LET firstSets == SelectSeq(calls,
                        LAMBDA c : \A j \in 1..(c.i - 1) : calls[j].key # c.key)
         lastSet(k) == CHOOSE j \in 1..Len(calls) :
                         /\ calls[j].key = k
                         /\ \A l \in (j + 1)..Len(calls) : calls[l].key # k
     IN [n \in 1..Len(firstSets) |->
           [key |-> firstSets[n].key, value |-> calls[lastSet(firstSets[n].key)].value]]
     : calls \in {MapSetCalls}} : TRUE

\* /^@[^\/]+\//
ScopePrefix == Cat(<<Bol, Lit("@"), Plus(Cls("notslash")), Lit("/")>>)

\* `if (direct)`: undefined and the empty string are falsy
Truthy(v) == v # Undefined /\ v # ""

\* const direct = _packageToCategory.get(name.toLowerCase())
DirectLookup(n) == MapGet(packageToCategory, toLowerCase(n))

\* mutant: the scope prefix is not removed before the second lookup
ScopelessLookup_NoStrip(n) ==
  IF startsWith(n, Chars("@"))
  THEN MapGet(packageToCategory, toLowerCase(n))
  ELSE Undefined

\* the `if (name.startsWith("@"))` block
ScopelessLookup(n) ==
  IF startsWith(n, Chars("@"))
  THEN MapGet(packageToCategory, toLowerCase(replaceWithEmpty(n, ScopePrefix)))
  ELSE Undefined

\* mutant: only "the name contains a known package" is tested
FuzzyHit_ContainsOnly(lower, pkg) == includes(lower, pkg)

\* the test of the fuzzy loop, lower == name.toLowerCase()
FuzzyHit(lower, pkg) == includes(lower, pkg) \/ includes(pkg, lower)

\* mutant: the loop does not return at the first hit, the last hit wins
FuzzyLookup_LastHit(n) ==
  LET lower == toLowerCase(n)
      hits == {i \in 1..Len(packageToCategory) :
                 includes(lower, packageToCategory[i].key)
                   \/ includes(packageToCategory[i].key, lower)}
  IN IF hits = {} THEN Undefined
     ELSE packageToCategory[CHOOSE i \in hits : \A j \in hits : i >= j].value

\* the fuzzy loop over _packageToCategory.entries(): the first hit returns
FuzzyLookup(n) ==
  LET lower == toLowerCase(n)
      hits == {i \in 1..Len(packageToCategory) : FuzzyHit(lower, packageToCategory[i].key)}
  IN IF hits = {} THEN Undefined
     ELSE packageToCategory[CHOOSE i \in hits : \A j \in hits : i <= j].value

\* mutant: the fuzzy loop runs before the two exact lookups
categorizeTrace_FuzzyFirst(nm) ==
  LET n == Chars(nm)
      direct == DirectLookup(n)
      scopeless == ScopelessLookup(n)
      fuzzy == FuzzyLookup(n)
  IN IF fuzzy # Undefined THEN [category |-> fuzzy, rule |-> "fuzzy"]
     ELSE IF Truthy(direct) THEN [category |-> direct, rule |-> "direct"]
     ELSE IF Truthy(scopeless) THEN [category |-> scopeless, rule |-> "scopeless"]
     ELSE [category |-> Null, rule |-> "none"]

\* categorizePackage, with the return statement taken
categorizeTrace(nm) ==
  LET n == Chars(nm)
      direct == DirectLookup(n)
      scopeless == ScopelessLookup(n)
      fuzzy == FuzzyLookup(n)
  IN IF Truthy(direct) THEN [category |-> direct, rule |-> "direct"]
     ELSE IF Truthy(scopeless) THEN [category |-> scopeless, rule |-> "scopeless"]
     ELSE IF fuzzy # Undefined THEN [category |-> fuzzy, rule |-> "fuzzy"]
     ELSE [category |-> Null, rule |-> "none"]

categorizePackage(nm) == categorizeTrace(nm).category

-----------------------------------------------------------------------------
(* build-vs-buy.ts *)

\* Object.entries(DOMAIN_KEYWORDS), in insertion order
DOMAIN_KEYWORDS ==
  <<
    [category |-> "Authentication", keywords |-> <<
       "jwt", "jsonwebtoken", "bcrypt", "hash-password", "hashPassword", "verifyToken",
       "signToken", "auth-middleware", "authMiddleware", "login", "session-token">>],
    [category |-> "Caching", keywords |-> <<
       "cache", "ttl", "lru", "memoize", "invalidate-cache", "cacheKey", "cache-control",
       "redis-client">>],
    [category |-> "Validation", keywords |-> <<
       "validate", "schema", "sanitize", "parse-input", "validateInput", "validateBody",
       "field-validation">>],
    [category |-> "Feature Flags", keywords |-> <<
       "feature-flag", "featureFlag", "isEnabled", "toggle", "feature-toggle",
       "flagEnabled">>],
    [category |-> "Job Queue", keywords |-> <<
       "job-queue", "jobQueue", "enqueue", "dequeue", "worker", "processJob",
       "schedule-job">>],
    [category |-> "Real-time", keywords |-> <<
       "websocket", "ws-server", "socket", "onMessage", "broadcast", "pubsub",
       "subscribe">>],
    [category |-> "Email", keywords |-> <<
       "send-email", "sendEmail", "smtp", "mailer", "email-template", "transporter">>],
    [category |-> "File Upload", keywords |-> <<
       "upload", "multipart", "file-upload", "handleUpload", "parseFile">>],
    [category |-> "HTTP Client", keywords |-> <<
       "http-client", "httpClient", "fetchWrapper", "apiClient", "request-wrapper">>],
    [category |-> "Observability", keywords |-> <<
       "logger", "log-level", "logLevel", "structured-log", "tracing", "metrics",
       "instrumenting">>]
  >>

\* kw.toLowerCase(), for each keyword
LowerKeyword ==
  [kw \in UNION {{DOMAIN_KEYWORDS[k].keywords[j] : j \in 1..Len(DOMAIN_KEYWORDS[k].keywords)}
                 : k \in 1..Len(DOMAIN_KEYWORDS)} |-> toLowerCase(Chars(kw))]

\* Object.entries(DOMAIN_FILE_PATTERNS), in insertion order; /x\.ts$/ is the
\* literal "x.ts" followed by the end of the input
DOMAIN_FILE_PATTERNS ==
  <<
    [category |-> "Authentication", patterns |-> <<
       Cat(<<Lit("auth.ts"), Eol>>), Cat(<<Lit("auth.js"), Eol>>),
       Lit("middleware/auth"), Lit("lib/auth"), Lit("utils/auth"), Lit("helpers/auth")>>],
    [category |-> "Caching", patterns |-> <<
       Cat(<<Lit("cache.ts"), Eol>>), Cat(<<Lit("cache.js"), Eol>>), Lit("lib/cache"),
       Lit("utils/cache")>>],
    [category |-> "Validation", patterns |-> <<
       Cat(<<Lit("validator.ts"), Eol>>), Cat(<<Lit("validator.js"), Eol>>),
       Cat(<<Lit("validation.ts"), Eol>>), Cat(<<Lit("validation.js"), Eol>>),
       Lit("lib/validate")>>],
    [category |-> "Feature Flags", patterns |-> <<
       Lit("feature-flag"), Lit("featureFlag"), Cat(<<Lit("flags.ts"), Eol>>),
       Cat(<<Lit("flags.js"), Eol>>)>>],
    [category |-> "Job Queue", patterns |-> <<
       Cat(<<Lit("queue.ts"), Eol>>), Cat(<<Lit("queue.js"), Eol>>),
       Cat(<<Lit("worker.ts"), Eol>>), Cat(<<Lit("worker.js"), Eol>>), Lit("lib/queue")>>],
    [category |-> "Real-time", patterns |-> <<
       Lit("websocket"), Cat(<<Lit("socket.ts"), Eol>>), Cat(<<Lit("socket.js"), Eol>>),
       Lit("ws-server")>>],
    [category |-> "Email", patterns |-> <<
       Cat(<<Lit("mailer.ts"), Eol>>), Cat(<<Lit("mailer.js"), Eol>>),
       Cat(<<Lit("email.ts"), Eol>>), Cat(<<Lit("email.js"), Eol>>), Lit("lib/mail")>>],
    [category |-> "File Upload", patterns |-> <<
       Cat(<<Lit("upload.ts"), Eol>>), Cat(<<Lit("upload.js"), Eol>>), Lit("lib/upload"),
       Lit("middleware/upload")>>],
    [category |-> "Observability", patterns |-> <<
       Cat(<<Lit("logger.ts"), Eol>>), Cat(<<Lit("logger.js"), Eol>>), Lit("lib/logger"),
       Lit("utils/logger")>>]
  >>

\* the installPatterns array: each pattern is what precedes its capture
\* group, and the group (.+) that ends it
installPatterns ==
  <<
    \* /(?:npm|yarn|pnpm|bun)\s+(?:install|add|i)\s+(?:--[^\s]+\s+)*(.+)/
    [pre |-> Cat(<<Alt(<<Lit("npm"), Lit("yarn"), Lit("pnpm"), Lit("bun")>>),
                   Plus(Cls("space")),
                   Alt(<<Lit("install"), Lit("add"), Lit("i")>>),
                   Plus(Cls("space")),
                   Star(Cat(<<Lit("--"), Plus(Cls("nonspace")), Plus(Cls("space"))>>))>>),
     group |-> Plus(Cls("dot"))],
    \* /pip3?\s+install\s+(.+)/
    [pre |-> Cat(<<Lit("pip"), Opt(Lit("3")), Plus(Cls("space")), Lit("install"),
                   Plus(Cls("space"))>>),
     group |-> Plus(Cls("dot"))],
    \* /cargo\s+add\s+(.+)/
    [pre |-> Cat(<<Lit("cargo"), Plus(Cls("space")), Lit("add"), Plus(Cls("space"))>>),
     group |-> Plus(Cls("dot"))],
    \* /go\s+get\s+(.+)/
    [pre |-> Cat(<<Lit("go"), Plus(Cls("space")), Lit("get"), Plus(Cls("space"))>>),
     group |-> Plus(Cls("dot"))],
    \* /gem\s+install\s+(.+)/
    [pre |-> Cat(<<Lit("gem"), Plus(Cls("space")), Lit("install"), Plus(Cls("space"))>>),
     group |-> Plus(Cls("dot"))]
  >>

\* /@[^/].*$/
VersionSuffix == Cat(<<Lit("@"), Cls("notslash"), Star(Cls("dot")), Eol>>)

\* command.match(pattern): whether the pattern matches, and capture group 1
\* of the leftmost match, the one backtracking finds first
MatchGroup(p, s) ==
  LET starts == {i \in 0..Len(s) : Ends(Cat(<<p.pre, p.group>>), s, i) # <<>>}
  IN IF starts = {} THEN [matched |-> FALSE, group |-> <<>>]
     ELSE LET i == CHOOSE k \in starts : \A l \in starts : k <= l
              pres == Ends(p.pre, s, i)
              ok == {k \in 1..Len(pres) : Ends(p.group, s, pres[k]) # <<>>}
              e == pres[CHOOSE k \in ok : \A l \in ok : k <= l]
          IN [matched |-> TRUE, group |-> SubSeq(s, e + 1, Head(Ends(p.group, s, e)))]

RECURSIVE split(_)
\* String.prototype.split(/\s+/)
split(s) ==
  LET spaces == {i \in 1..Len(s) : s[i] \in WhiteSpace}
  IN IF spaces = {} THEN <<s>>
     ELSE LET i == CHOOSE k \in spaces : \A l \in spaces : k <= l
              rest == {j \in (i + 1)..Len(s) : s[j] \notin WhiteSpace}
              j == IF rest = {} THEN Len(s) + 1
                   ELSE CHOOSE k \in rest : \A l \in rest : k <= l
          IN <<SubSeq(s, 1, i - 1)>> \o split(SubSeq(s, j, Len(s)))

\* extractPackageNames without the `match?.[1]` test: a command no pattern
\* matches is split into words like a captured group
extractPackageNames_Unguarded(command) ==
  LET hits == {k \in 1..Len(installPatterns) :
                 LET m == MatchGroup(installPatterns[k], command)
                 IN m.matched /\ m.group # <<>>}
      group == IF hits = {} THEN command
               ELSE MatchGroup(installPatterns[CHOOSE h \in hits : \A l \in hits : h <= l],
                               command).group
      words == SelectSeq(split(group), LAMBDA p : ~startsWith(p, Chars("-")))
  IN [j \in 1..Len(words) |-> replaceWithEmpty(words[j], VersionSuffix)]

\* extractPackageNames: the first pattern whose group 1 is a non-empty
\* string decides; its words that are not options, cut at the version suffix
extractPackageNames(command) ==
  LET hits == {k \in 1..Len(installPatterns) :
                 LET m == MatchGroup(installPatterns[k], command)
                 IN m.matched /\ m.group # <<>>}
  IN IF hits = {} THEN <<>>
     ELSE LET k == CHOOSE h \in hits : \A l \in hits : h <= l
              words == SelectSeq(split(MatchGroup(installPatterns[k], command).group),
                                 LAMBDA p : ~startsWith(p, Chars("-")))
          IN [j \in 1..Len(words) |-> replaceWithEmpty(words[j], VersionSuffix)]

\* `__cat__${cat}`
CatKey(cat) == "__cat__" \o cat

\* what the first loop adds to installedPackages for one event
InstalledBy(event) ==
  IF event.action = "bash"
  THEN UNION {{Str(toLowerCase(pkg))}
                \cup {CatKey(cat) : cat \in {categorizePackage(Str(pkg))} \ {Null, ""}}
              : pkg \in UNION {{p[j] : j \in 1..Len(p)}
                              : p \in {extractPackageNames(Chars(event.raw))}}}
  ELSE {}

\* the first loop of detectCustomImplementation
CollectInstalled(evs) == UNION {InstalledBy(evs[i]) : i \in 1..Len(evs)}

\* mutant: the inner loop has no break, every matching pattern pushes
PathDetection_NoBreak(entry, filePath, installed) ==
  IF CatKey(entry.category) \in installed THEN <<>>
  ELSE LET matching == SelectSeq(entry.patterns, LAMBDA p : test(p, filePath))
       IN [j \in 1..Len(matching) |->
             [category |-> entry.category, keywords |-> <<Str(filePath)>>,
              confidence |-> 60]]

\* the inner loop over one category's patterns: one detection is pushed at
\* the first pattern that matches, and the loop breaks
PathDetection(entry, filePath, installed) ==
  IF CatKey(entry.category) \in installed THEN <<>>
  ELSE LET matching == SelectSeq(entry.patterns, LAMBDA p : test(p, filePath))
       IN IF matching = <<>> THEN <<>>
          ELSE <<[category |-> entry.category, keywords |-> <<Str(filePath)>>,
                  confidence |-> 60]>>

RECURSIVE PathDetections(_, _, _)
\* the loop over Object.entries(DOMAIN_FILE_PATTERNS), from entry k on
PathDetections(k, filePath, installed) ==
  IF k > Len(DOMAIN_FILE_PATTERNS) THEN <<>>
  ELSE PathDetection(DOMAIN_FILE_PATTERNS[k], filePath, installed)
       \o PathDetections(k + 1, filePath, installed)

\* keywords.filter(kw => content.toLowerCase().includes(kw.toLowerCase())),
\* lower == content.toLowerCase()
MatchedKeywords(keywords, lower) ==
  SelectSeq(keywords, LAMBDA kw : includes(lower, LowerKeyword[kw]))

Min(a, b) == IF a <= b THEN a ELSE b

\* mutant: a content detection is always pushed, never merged
ContentDetection_NoMerge(entry, lower, installed, detections) ==
  LET matched == MatchedKeywords(entry.keywords, lower)
  IN IF CatKey(entry.category) \in installed \/ Len(matched) < 2 THEN detections
     ELSE Append(detections,
                 [category |-> entry.category, keywords |-> matched,
                  confidence |-> 40 + Len(matched) * 10])

\* the body of the content-keyword loop for one category: merge into the
\* detection of the same category, or push a new one
ContentDetection(entry, lower, installed, detections) ==
  LET matched == MatchedKeywords(entry.keywords, lower)
      same == {i \in 1..Len(detections) : detections[i].category = entry.category}
  IN IF CatKey(entry.category) \in installed \/ Len(matched) < 2 THEN detections
     ELSE IF same # {}
     THEN LET i == CHOOSE k \in same : \A l \in same : k <= l
          IN [detections EXCEPT
                ![i] = [category |-> @.category,
                        keywords |-> @.keywords \o matched,
                        confidence |-> Min(95, @.confidence + Len(matched) * 10)]]
     ELSE Append(detections,
                 [category |-> entry.category, keywords |-> matched,
                  confidence |-> 40 + Len(matched) * 10])

RECURSIVE ContentDetections(_, _, _, _)
\* the loop over Object.entries(DOMAIN_KEYWORDS), from entry k on
ContentDetections(k, lower, installed, detections) ==
  IF k > Len(DOMAIN_KEYWORDS) THEN detections
  ELSE ContentDetections(k + 1, lower, installed,
         ContentDetection(DOMAIN_KEYWORDS[k], lower, installed, detections))

\* the body of the second loop: what one event adds to results
DetectionsOf(event, installed) ==
  IF event.action # "file_write" THEN <<>>
  ELSE LET filePath == Chars(event.raw)
           content == Chars(IF event.result = Undefined THEN "" ELSE event.result)
           \* results.push({...}) for each detection
           Push(detections) ==
             [i \in 1..Len(detections) |->
                [event |-> event,
                 category |-> detections[i].category,
                 matchedKeywords |-> detections[i].keywords,
                 confidence |-> detections[i].confidence]]
       IN CHOOSE pushed \in
            {Push(detections) :
               detections \in {ContentDetections(1, toLowerCase(content), installed,
                                  PathDetections(1, filePath, installed))}} : TRUE

RECURSIVE DetectFrom(_, _, _)
DetectFrom(evs, i, installed) ==
  IF i > Len(evs) THEN <<>>
  ELSE DetectionsOf(evs[i], installed) \o DetectFrom(evs, i + 1, installed)

\* detectCustomImplementation: the Set the first loop builds, and the
\* results the second loop returns
detectCustomImplementation(evs) ==
  CHOOSE r \in {[installedPackages |-> installed,
                 results |-> DetectFrom(evs, 1, installed)]
                : installed \in {CollectInstalled(evs)}} : TRUE

\* mutant: the percentage is truncated to 2 decimals instead of rounded
customBuildPct_Truncated(customCount, total) == (customCount * 10000) \div total

\* Math.round((customCount / total) * 10000) / 100, counted in hundredths
\* (2500 is 25.00).  Math.round rounds to the nearest integer, a tie going
\* up; for totals below 800 the double product (customCount / total) *
\* 10000 rounds to the same integer as the exact quotient.
customBuildPct(customCount, total) == (2 * customCount * 10000 + total) \div (2 * total)

\* installEvents.filter(...).length for one category; cats[i] is
\* categorizePackage(e.packageName) of the i-th event when it has a
\* packageName
InstallCount(cat, installs, cats) ==
  Cardinality({i \in 1..Len(installs) :
                 \/ installs[i].category = cat
                 \/ /\ installs[i].packageName # Undefined
                    /\ installs[i].packageName # ""
                    /\ cats[i] = cat})

\* customBuilds.filter(b => b.category === category).length
CustomCount(cat, builds) == Cardinality({i \in 1..Len(builds) : builds[i].category = cat})

RECURSIVE SummaryFrom_NoSkip(_, _, _, _)
\* mutant: a category of total 0 is not skipped (its percentage is NaN,
\* written 0)
SummaryFrom_NoSkip(k, builds, installs, cats) ==
  IF k > Len(Categories) THEN <<>>
  ELSE LET customCount == CustomCount(Categories[k], builds)
           instCount == InstallCount(Categories[k], installs, cats)
           total == instCount + customCount
       IN <<[category |-> Categories[k],
             installCount |-> instCount,
             customBuildCount |-> customCount,
             customBuildPct |-> IF total = 0 THEN 0
                                ELSE customBuildPct(customCount, total)]>>
          \o SummaryFrom_NoSkip(k + 1, builds, installs, cats)

RECURSIVE SummaryFrom(_, _, _, _)
\* the loop over Object.keys(TOOL_CATEGORIES), from category k on
SummaryFrom(k, builds, installs, cats) ==
  IF k > Len(Categories) THEN <<>>
  ELSE LET customCount == CustomCount(Categories[k], builds)
           instCount == InstallCount(Categories[k], installs, cats)
           total == instCount + customCount
       IN (IF total = 0 THEN <<>>
           ELSE <<[category |-> Categories[k],
                   installCount |-> instCount,
                   customBuildCount |-> customCount,
                   customBuildPct |-> customBuildPct(customCount, total)]>>)
          \o SummaryFrom(k + 1, builds, installs, cats)

Total(entry) == entry.installCount + entry.customBuildCount

RECURSIVE InsertByTotal(_, _)
\* entry put into a list sorted by decreasing total, behind its equals
InsertByTotal(entry, sorted) ==
  IF sorted = <<>> THEN <<entry>>
  ELSE IF Total(Head(sorted)) >= Total(entry)
       THEN <<Head(sorted)>> \o InsertByTotal(entry, Tail(sorted))
       ELSE <<entry>> \o sorted

\* mutant: the summary is returned in the order of the category loop
SortByTotal_Unsorted(list, sorted) == list

RECURSIVE SortByTotal(_, _)
\* summary.sort((a, b) => total(b) - total(a)): Array.prototype.sort is
\* stable, entries of equal total keep their order
SortByTotal(list, sorted) ==
  IF list = <<>> THEN sorted
  ELSE SortByTotal(Tail(list), InsertByTotal(Head(list), sorted))

getBuildVsBuySummary(builds, installs) ==
  CHOOSE r \in
    {SortByTotal(SummaryFrom(1, builds, installs, cats), <<>>) :
       cats \in {[i \in 1..Len(installs) |->
                    IF installs[i].packageName = Undefined THEN Null
                    ELSE categorizePackage(installs[i].packageName)]}} : TRUE

-----------------------------------------------------------------------------
(* The PreToolUse hook *)

\* INSTALL_PATTERNS of classifiers/types: per package manager, the ordered
\* install-command patterns, capture group 1 holding what follows the
\* subcommand; the node package managers and pip
INSTALL_PATTERNS ==
  <<
    [manager |-> "npm", patterns |-> <<
       [pre |-> Cat(<<Alt(<<Lit("npm"), Lit("yarn"), Lit("pnpm"), Lit("bun")>>),
                      Plus(Cls("space")),
                      Alt(<<Lit("install"), Lit("add"), Lit("i")>>),
                      Plus(Cls("space"))>>),
        group |-> Plus(Cls("dot"))] >>],
    [manager |-> "pip", patterns |-> <<
       [pre |-> Cat(<<Lit("pip"), Opt(Lit("3")), Plus(Cls("space")), Lit("install"),
                      Plus(Cls("space"))>>),
        group |-> Plus(Cls("dot"))] >>]
  >>

\* String.prototype.trim
trim(s) ==
  LET keep == {i \in 1..Len(s) : s[i] \notin WhiteSpace}
  IN IF keep = {} THEN <<>>
     ELSE SubSeq(s, CHOOSE i \in keep : \A j \in keep : i <= j,
                    CHOOSE i \in keep : \A j \in keep : i >= j)

\* matchInstallCommand returning null
NoInstallMatch == [matched |-> FALSE, packageName |-> "", packageManager |-> ""]

\* the body of the two loops of matchInstallCommand for one pattern: the
\* InstallMatch it returns, or NoInstallMatch when the loops go on; the
\* version is cut with /@[\^~]?[\d].*$/
MatchOnePattern(manager, pattern, command) ==
  CHOOSE r \in
    {IF ~m.matched \/ m.group = <<>> THEN NoInstallMatch
     ELSE LET parts == SelectSeq(split(trim(m.group)),
                                 LAMBDA p : ~startsWith(p, Chars("-")))
          IN IF parts = <<>> \/ parts[1] = <<>> THEN NoInstallMatch
             ELSE [matched |-> TRUE,
                   packageName |->
                     Str(replaceWithEmpty(parts[1],
                           Cat(<<Lit("@"), Opt(Cls("range")), Cls("digit"),
                                 Star(Cls("dot")), Eol>>))),
                   packageManager |-> manager]
     : m \in {MatchGroup(pattern, command)}} : TRUE

\* matchInstallCommand: the first pattern, in the iteration order of
\* Object.entries(INSTALL_PATTERNS) and of each manager's patterns, that
\* yields a package name returns; null when none does
matchInstallCommand(command) ==
  CHOOSE r \in
    {LET hits == {e \in DOMAIN found : found[e].matched}
     IN IF hits = {} THEN NoInstallMatch
        ELSE found[CHOOSE e \in hits :
                     \A f \in hits : e.k < f.k \/ (e.k = f.k /\ e.j <= f.j)]
     : found \in {[e \in UNION {{[k |-> k, j |-> j]
                                    : j \in 1..Len(INSTALL_PATTERNS[k].patterns)}
                                   : k \in 1..Len(INSTALL_PATTERNS)} |->
                     MatchOnePattern(INSTALL_PATTERNS[e.k].manager,
                                     INSTALL_PATTERNS[e.k].patterns[e.j],
                                     Chars(command))]}} : TRUE

\* crypto.createHash('sha256').update(raw).digest('hex').slice(0, 12), for
\* the session ids the hook is run with
Sha256Hex12 ==
  [raw \in {"sess-1", "sess-2", "unknown"} |->
     CASE raw = "sess-1"  -> "abe633f3a47a"
       [] raw = "sess-2"  -> "2b8ea9758113"
       [] raw = "unknown" -> "b23a6a8439c0"]

\* getSessionId: the hash of hookData.session_id, or of 'unknown' when the
\* field is absent or empty
getSessionId(hookData) ==
  Sha256Hex12[IF hookData.session_id = Undefined \/ hookData.session_id = ""
              THEN "unknown" ELSE hookData.session_id]

\* getAllowedPath
getAllowedPath(sessionId) == "sightglass-allowed-" \o sessionId \o ".json"

\* a file that does not exist
Absent == "<absent>"

\* fs.readFileSync of a file of os.tmpdir(): `files` maps the paths that
\* exist to their parsed JSON content
ReadFile(files, path) == IF path \in DOMAIN files THEN files[path] ELSE Absent

\* isAlreadyAllowed: false when the file cannot be read, else whether the
\* array holds the lower-cased package name
isAlreadyAllowed(files, sessionId, packageName) ==
  LET data == ReadFile(files, getAllowedPath(sessionId))
  IN /\ data # Absent
     /\ \E i \in 1..Len(data) : data[i] = Str(toLowerCase(Chars(packageName)))

\* mutant: the package name is written as given, not lower-cased
markAllowed_AsGiven(files, sessionId, packageName) ==
  LET filePath == getAllowedPath(sessionId)
      data == ReadFile(files, filePath)
      existing == IF data = Absent THEN <<>> ELSE data
  IN [p \in DOMAIN files \cup {filePath} |->
        IF p = filePath THEN Append(existing, packageName) ELSE files[p]]

\* markAllowed: the files after the array, empty when the file cannot be
\* read, gets the lower-cased package name pushed and is written back
markAllowed(files, sessionId, packageName) ==
  LET filePath == getAllowedPath(sessionId)
      data == ReadFile(files, filePath)
      existing == IF data = Absent THEN <<>> ELSE data
  IN [p \in DOMAIN files \cup {filePath} |->
        IF p = filePath THEN Append(existing, Str(toLowerCase(Chars(packageName))))
        ELSE files[p]]

\* loadConfig: null (found FALSE) when ~/.sightglass/config.json cannot be
\* read or parsed or lacks privacy.apiUrl or privacy.apiKey
loadConfig(configFile) ==
  IF /\ configFile.readable
     /\ configFile.parses
     /\ "privacy" \in DOMAIN configFile.raw
     /\ "apiUrl" \in DOMAIN configFile.raw.privacy
     /\ "apiKey" \in DOMAIN configFile.raw.privacy
     /\ configFile.raw.privacy.apiUrl # ""
     /\ configFile.raw.privacy.apiKey # ""
  THEN [found |-> TRUE, apiUrl |-> configFile.raw.privacy.apiUrl,
        apiKey |-> configFile.raw.privacy.apiKey]
  ELSE [found |-> FALSE]

\* `${evaluation.field}` in a template string
Field(evaluation, k) == IF k \in DOMAIN evaluation THEN evaluation[k] ELSE "undefined"

RECURSIVE Join(_, _)
\* Array.prototype.join
Join(list, sep) ==
  IF list = <<>> THEN ""
  ELSE IF Len(list) = 1 THEN list[1]
  ELSE list[1] \o sep \o Join(Tail(list), sep)

\* formatEvaluationCard: evaluation.cves.length throws a TypeError when the
\* body has no cves
formatEvaluationCard(evaluation) ==
  IF "cves" \notin DOMAIN evaluation THEN [threw |-> TRUE, card |-> ""]
  ELSE
    LET verdict == Field(evaluation, "verdict")
        verdictIcon == IF verdict = "PROCEED" THEN "[OK]"
                       ELSE IF verdict = "CAUTION" THEN "[CAUTION]"
                       ELSE "[SWITCH]"
        lines ==
          << "--- Sightglass Package Evaluation ---",
             "Package: " \o Field(evaluation, "packageName"),
             "Verdict: " \o verdictIcon \o " " \o verdict,
             "Status: " \o Field(evaluation, "status") >>
          \o (IF Len(evaluation.cves) > 0
              THEN <<"CVEs: " \o Join(evaluation.cves, ", ")>> ELSE <<>>)
          \o (IF "size" \in DOMAIN evaluation /\ evaluation.size # ""
                   /\ evaluation.size # "unknown"
              THEN <<"Size: " \o evaluation.size>> ELSE <<>>)
          \o (IF "alternative" \in DOMAIN evaluation
              THEN <<"Alternative: " \o evaluation.alternative.name \o " - "
                       \o evaluation.alternative.reason>>
              ELSE <<>>)
          \o << "Summary: " \o Field(evaluation, "summary"),
                "",
                "If you still want this package, re-run the install and Sightglass will allow it.",
                "---" >>
    IN [threw |-> FALSE, card |-> Join(lines, "\n")]

\* what one run of the hook leaves behind: the process exit code, whether
\* fetch was called, the entries logDecision appended, what was written to
\* stdout, and the files of os.tmpdir()
Exit(code, called, logged, out, files) ==
  [exitCode |-> code, apiCalled |-> called, logged |-> logged, stdout |-> out,
   files |-> files]

Decision(sessionId, packageName, action) ==
  [session_id |-> sessionId, package |-> packageName, action |-> action]

\* mutant: the tool is not required to be Bash
Intercept_AnyTool(stdin) ==
  IF stdin.status = "unreadable"
  THEN [exited |-> TRUE]
  ELSE IF stdin.status = "notjson"
  THEN [exited |-> TRUE]
  ELSE IF stdin.status = "jsonnull"
  \* hookData.tool_name of null throws; main().catch exits 0
  THEN [exited |-> TRUE]
  ELSE
    LET hookData == stdin.data
    IN IF "tool_name" \notin DOMAIN hookData
       THEN [exited |-> TRUE]
       ELSE IF \/ "tool_input" \notin DOMAIN hookData
               \/ "command" \notin DOMAIN hookData.tool_input
               \/ hookData.tool_input.command = ""
       THEN [exited |-> TRUE]
       ELSE CHOOSE r \in
              {IF ~installMatch.matched THEN [exited |-> TRUE]
               ELSE [exited |-> FALSE,
                     packageName |-> installMatch.packageName,
                     packageManager |-> installMatch.packageManager,
                     sessionId |-> getSessionId(
                        [session_id |-> IF "session_id" \in DOMAIN hookData
                                        THEN hookData.session_id ELSE Undefined])]
               : installMatch \in {matchInstallCommand(hookData.tool_input.command)}}
              : TRUE

\* main, lines 159-190: the exit taken before the session is looked at, or
\* the install match and the session id
Intercept(stdin) ==
  IF stdin.status = "unreadable"
  THEN [exited |-> TRUE]
  ELSE IF stdin.status = "notjson"
  THEN [exited |-> TRUE]
  ELSE IF stdin.status = "jsonnull"
  \* hookData.tool_name of null throws; main().catch exits 0
  THEN [exited |-> TRUE]
  ELSE
    LET hookData == stdin.data
    IN IF "tool_name" \notin DOMAIN hookData \/ hookData.tool_name # "Bash"
       THEN [exited |-> TRUE]
       ELSE IF \/ "tool_input" \notin DOMAIN hookData
               \/ "command" \notin DOMAIN hookData.tool_input
               \/ hookData.tool_input.command = ""
       THEN [exited |-> TRUE]
       ELSE CHOOSE r \in
              {IF ~installMatch.matched THEN [exited |-> TRUE]
               ELSE [exited |-> FALSE,
                     packageName |-> installMatch.packageName,
                     packageManager |-> installMatch.packageManager,
                     sessionId |-> getSessionId(
                        [session_id |-> IF "session_id" \in DOMAIN hookData
                                        THEN hookData.session_id ELSE Undefined])]
               : installMatch \in {matchInstallCommand(hookData.tool_input.command)}}
              : TRUE

\* mutant: a body the card cannot be formatted from still blocks
Evaluate_BlockWithoutCard(files, sessionId, packageName, env) ==
  LET noApi(called, logged, fs) ==
        Exit(0, called,
             logged \o <<Decision(sessionId, packageName, "allowed_no_api")>>,
             "", fs)
      config == loadConfig(env.config)
  IN IF isAlreadyAllowed(files, sessionId, packageName)
     THEN Exit(0, FALSE, <<Decision(sessionId, packageName, "allowed_retry")>>,
               "", files)
     ELSE IF ~config.found
     THEN noApi(FALSE, <<>>, files)
     \* fetch rejects, or is aborted by the timer after 15 s
     ELSE IF env.api.outcome \in {"rejects", "aborted"}
     THEN noApi(TRUE, <<>>, files)
     ELSE IF ~env.api.ok
     THEN noApi(TRUE, <<>>, files)
     ELSE IF env.api.bodyKind # "json"
     \* response.json() rejects, or evaluation.verdict of null throws
     THEN noApi(TRUE, <<>>, files)
     ELSE IF Field(env.api.body, "verdict") = "PROCEED"
     THEN Exit(0, TRUE, <<Decision(sessionId, packageName, "allowed")>>, "", files)
     ELSE IF ~env.writeOk
     \* fs.writeFileSync of markAllowed throws
     THEN noApi(TRUE, <<>>, files)
     ELSE LET marked == markAllowed(files, sessionId, packageName)
              logBlocked == <<Decision(sessionId, packageName, "blocked")>>
              formatted == formatEvaluationCard(env.api.body)
          IN IF formatted.threw
             THEN Exit(2, TRUE, logBlocked, "{\"decision\":\"block\"}", marked)
             ELSE Exit(2, TRUE, logBlocked,
                       "{\"decision\":\"block\",\"reason\":\"" \o formatted.card \o "\"}",
                       marked)

\* main, lines 192-250: the bypass, the call of the evaluation API and the
\* exits; a throw inside the try block is caught at line 243 and falls to
\* the exit of line 250
Evaluate(files, sessionId, packageName, env) ==
  LET noApi(called, logged, fs) ==
        Exit(0, called,
             logged \o <<Decision(sessionId, packageName, "allowed_no_api")>>,
             "", fs)
      config == loadConfig(env.config)
  IN IF isAlreadyAllowed(files, sessionId, packageName)
     THEN Exit(0, FALSE, <<Decision(sessionId, packageName, "allowed_retry")>>,
               "", files)
     ELSE IF ~config.found
     THEN noApi(FALSE, <<>>, files)
     \* fetch rejects, or is aborted by the timer after 15 s
     ELSE IF env.api.outcome \in {"rejects", "aborted"}
     THEN noApi(TRUE, <<>>, files)
     ELSE IF ~env.api.ok
     THEN noApi(TRUE, <<>>, files)
     ELSE IF env.api.bodyKind # "json"
     \* response.json() rejects, or evaluation.verdict of null throws
     THEN noApi(TRUE, <<>>, files)
     ELSE IF Field(env.api.body, "verdict") = "PROCEED"
     THEN Exit(0, TRUE, <<Decision(sessionId, packageName, "allowed")>>, "", files)
     ELSE IF ~env.writeOk
     \* fs.writeFileSync of markAllowed throws
     THEN noApi(TRUE, <<>>, files)
     ELSE LET marked == markAllowed(files, sessionId, packageName)
              logBlocked == <<Decision(sessionId, packageName, "blocked")>>
              formatted == formatEvaluationCard(env.api.body)
          IN IF formatted.threw
             THEN noApi(TRUE, logBlocked, marked)
             ELSE Exit(2, TRUE, logBlocked,
                       "{\"decision\":\"block\",\"reason\":\"" \o formatted.card \o "\"}",
                       marked)

\* main: one run of the hook, `pre` being what lines 159-190 made of stdin
main(pre, files, env) ==
  IF pre.exited THEN Exit(0, FALSE, <<>>, "", files)
  ELSE Evaluate(files, pre.sessionId, pre.packageName, env)

-----------------------------------------------------------------------------
(* The hook commands of the CLI and the hook registration of `setup`       *)

\* a JSON object is a function from its keys to their values: {} and
\* obj[k] = v
EmptyObject == [k \in {} |-> 0]
SetKey(obj, k, v) == [f \in DOMAIN obj \cup {k} |-> IF f = k THEN v ELSE obj[f]]

\* the entry both commands push: { type: 'command', command: `node ${path}` }
\* with path.join(os.homedir(), '.sightglass', 'hooks', 'pretooluse.js')
HookEntry ==
  [type |-> "command", command |-> "node /home/dev/.sightglass/hooks/pretooluse.js"]

\* h.type === 'command' && h.command?.includes('sightglass')
IsSightglassCommand(h) ==
  /\ "type" \in DOMAIN h
  /\ h.type = "command"
  /\ "command" \in DOMAIN h
  /\ includes(Chars(h.command), Chars("sightglass"))

\* preToolUse.some(...)
SomeSightglass(preToolUse) ==
  \E i \in 1..Len(preToolUse) : IsSightglassCommand(preToolUse[i])

\* settings.json on disk: ~/.claude may not exist ("nodir"), the file may
\* not exist ("missing"), may not parse ("unparsable") or holds a JSON
\* object ("json"); JSON.stringify followed by JSON.parse gives back the
\* object that was written
Json(obj) == [kind |-> "json", json |-> obj]

\* the outcome of a command: what it printed last, whether it wrote
\* settings.json, the file and the canonical hook script after it
CliRun(command, outcome, wrote, file, script) ==
  [command |-> command, outcome |-> outcome, wrote |-> wrote, file |-> file,
   script |-> script]

\* registration that pushes without looking for an entry first
Register_Always(command, file, writable) ==
  LET \* `let settings = {}; if (existsSync) { try { settings = JSON.parse(...) }
      \* catch {} }`
      settings == IF file.kind = "json" THEN file.json ELSE EmptyObject
      \* `if (!settings.hooks) settings.hooks = {}`
      hooks == IF "hooks" \in DOMAIN settings THEN settings.hooks ELSE EmptyObject
      \* `if (!hooks.PreToolUse) hooks.PreToolUse = []`
      preToolUse == IF "PreToolUse" \in DOMAIN hooks THEN hooks.PreToolUse ELSE <<>>
  IN IF ~writable THEN CliRun(command, "crashed", FALSE, file, TRUE)
     ELSE CliRun(command, "installed", TRUE,
              Json(SetKey(settings, "hooks",
                          SetKey(hooks, "PreToolUse", Append(preToolUse, HookEntry)))),
              TRUE)

\* the registration both commands share: read settings.json, push the entry
\* and write unless a sightglass command entry is there; writeFileSync
\* throws when the directory of the file does not exist
Register(command, file, writable) ==
  LET \* `let settings = {}; if (existsSync) { try { settings = JSON.parse(...) }
      \* catch {} }`
      settings == IF file.kind = "json" THEN file.json ELSE EmptyObject
      \* `if (!settings.hooks) settings.hooks = {}`
      hooks == IF "hooks" \in DOMAIN settings THEN settings.hooks ELSE EmptyObject
      \* `if (!hooks.PreToolUse) hooks.PreToolUse = []`
      preToolUse == IF "PreToolUse" \in DOMAIN hooks THEN hooks.PreToolUse ELSE <<>>
  IN IF SomeSightglass(preToolUse)
     THEN CliRun(command, IF command = "setup" THEN "installed" ELSE "already", FALSE,
              file, TRUE)
     ELSE IF ~writable THEN CliRun(command, "crashed", FALSE, file, TRUE)
     ELSE CliRun(command, "installed", TRUE,
              Json(SetKey(settings, "hooks",
                          SetKey(hooks, "PreToolUse", Append(preToolUse, HookEntry)))),
              TRUE)

\* `sightglass hook install`: copy the packaged script or fall back on the
\* canonical one, create ~/.claude, register
hookInstall(file, script, packaged) ==
  IF ~packaged /\ ~script THEN CliRun("hook install", "no-script", FALSE, file, script)
  ELSE Register("hook install",
                IF file.kind = "nodir" THEN [kind |-> "missing"] ELSE file, TRUE)

\* `sightglass setup`: steps 1 to 4 may end the run (no agent found); step 5
\* registers only when the packaged script exists and does not create
\* ~/.claude
setup(file, script, packaged, reaches) ==
  IF ~reaches THEN CliRun("setup", "ended", FALSE, file, script)
  ELSE IF ~packaged THEN CliRun("setup", "no-script", FALSE, file, script)
  ELSE Register("setup", file, file.kind # "nodir")

\* preToolUse.filter(h => !(...)) that stops at the first entry it drops
RECURSIVE Filtered_FirstOnly(_)
Filtered_FirstOnly(preToolUse) ==
  IF preToolUse = <<>> THEN <<>>
  ELSE IF IsSightglassCommand(Head(preToolUse)) THEN Tail(preToolUse)
  ELSE <<Head(preToolUse)>> \o Filtered_FirstOnly(Tail(preToolUse))

\* preToolUse.filter(h => !(h.type === 'command' && h.command?.includes('sightglass')))
Filtered(preToolUse) == SelectSeq(preToolUse, LAMBDA h : ~IsSightglassCommand(h))

\* `sightglass hook uninstall`
hookUninstall(file, script) ==
  IF file.kind \in {"nodir", "missing"}
  THEN CliRun("hook uninstall", "no-settings", FALSE, file, script)
  ELSE IF file.kind = "unparsable"
  THEN CliRun("hook uninstall", "unparsable", FALSE, file, script)
  ELSE IF ~("hooks" \in DOMAIN file.json /\ "PreToolUse" \in DOMAIN file.json.hooks)
  THEN CliRun("hook uninstall", "no-hooks", FALSE, file, script)
  ELSE LET filtered == Filtered(file.json.hooks.PreToolUse)
       IN IF Len(filtered) = Len(file.json.hooks.PreToolUse)
          THEN CliRun("hook uninstall", "not-found", FALSE, file, script)
          ELSE CliRun("hook uninstall", "removed", TRUE,
                   Json(SetKey(file.json, "hooks",
                               SetKey(file.json.hooks, "PreToolUse", filtered))),
                   script)

\* `sightglass hook status`
hookStatus(file, script) ==
  IF file.kind \in {"nodir", "missing"}
  THEN CliRun("hook status", "no-settings", FALSE, file, script)
  ELSE IF file.kind = "unparsable"
  THEN CliRun("hook status", "unparsable", FALSE, file, script)
  ELSE IF /\ "hooks" \in DOMAIN file.json
          /\ "PreToolUse" \in DOMAIN file.json.hooks
          /\ SomeSightglass(file.json.hooks.PreToolUse)
  THEN CliRun("hook status", "installed", FALSE, file, script)
  ELSE CliRun("hook status", "not-installed", FALSE, file, script)

-----------------------------------------------------------------------------
(* `sightglass analyze` *)

\* parseSinceDate: null without --since, the start of the day for 'today';
\* events carry the day of their timestamp, the run being on day 2
parseSinceDate(since) ==
  IF since = Undefined THEN [date |-> FALSE] ELSE [date |-> TRUE, day |-> 2]

\* db.getEventsBySession(id): the stored rows of one session
getEventsBySession(rows, id) == SelectSeq(rows, LAMBDA row : row.session_id = id)

\* db.getAllEvents(since): the stored rows, from the date on when one is given
getAllEvents(rows, since) ==
  SelectSeq(rows, LAMBDA row : since.date => row.day >= since.day)

\* collectAllEvents(since) and collectCodexEvents(since), then
\* allSessions.flatMap(s => s.events): the events of every session found in
\* the agent logs, from the date on when one is given
collectEvents(logEvents, since) ==
  SelectSeq(logEvents, LAMBDA e : since.date => e.day >= since.day)

\* the action of `analyze`: the rows of the database when it opens and has
\* rows for the query, else the events collected from the agent logs; these
\* are the events it classifies, chains, scores, counts in its report and
\* pushes when sharing is enabled
analyze(rows, logEvents, opts, dbOpens, share) ==
  LET since == parseSinceDate(opts.since)
      found == IF ~dbOpens THEN <<>>
               ELSE IF opts.session # Undefined THEN getEventsBySession(rows, opts.session)
               ELSE getAllEvents(rows, since)
      \* rows.map(row => ({ id: row.id, sessionId: row.session_id, ... }))
      allEvents == IF Len(found) > 0
                   THEN [i \in 1..Len(found) |->
                           [id |-> found[i].id, sessionId |-> found[i].session_id,
                            day |-> found[i].day]]
                   ELSE collectEvents(logEvents, since)
  IN [command |-> "analyze", opts |-> opts,
      source |-> IF Len(found) > 0 THEN "db" ELSE "logs",
      allEvents |-> allEvents,
      outcome |-> IF allEvents = <<>> THEN "no-events" ELSE "reported",
      totalEvents |-> Len(allEvents),
      pushed |-> allEvents # <<>> /\ share]

-----------------------------------------------------------------------------
(* `sightglass watch`: the change handler *)

RECURSIVE SplitNewline(_)
\* content.split('\n'), on characters: the pieces between the newlines, one
\* more than there are newlines
SplitNewline(content) ==
  LET breaks == {i \in 1..Len(content) : content[i] = "\n"}
  IN IF breaks = {} THEN <<content>>
     ELSE LET i == CHOOSE k \in breaks : \A l \in breaks : k <= l
          IN <<SubSeq(content, 1, i - 1)>>
               \o SplitNewline(SubSeq(content, i + 1, Len(content)))

\* what the handler of 'change' does with the content it read: the numbers
\* of the lines it hands to the parser, lines.slice(prevCount) without the
\* blank ones, and the count it stores in processedLines
onChange(content, prevCount) ==
  LET lines == SplitNewline(content)
  IN [newLines |-> SelectSeq([i \in 1..Len(lines) |-> i],
                             LAMBDA i : i > prevCount /\ trim(lines[i]) # <<>>),
      count |-> Len(lines)]

-----------------------------------------------------------------------------
(* The parts of the state a specification of one function leaves alone *)

classifierVars == <<name, category, rule, events, installedPackages, results,
                    customBuilds, installEvents, summary>>

ClassifierIdle ==
  /\ name = ""
  /\ category = Null
  /\ rule = ""
  /\ events = <<>>
  /\ installedPackages = {}
  /\ results = <<>>
  /\ customBuilds = <<>>
  /\ installEvents = <<>>
  /\ summary = <<>>

\* no run of the hook yet
NoRun == [session |-> "", stdin |-> [status |-> "none"]]

hookVars == <<tmpFiles, hookRun, blocked>>

HookIdle ==
  /\ tmpFiles = <<>>
  /\ hookRun = NoRun
  /\ blocked = {}

toolVars == <<hookVars, settingsFile, canonicalHook, cliRun, dbRows, agentLogs,
              logLines, processedLines, handed, lastChange, procs>>

\* no run of the hook, no command of the CLI, no settings.json, an empty
\* database and no agent logs
ToolsIdle ==
  /\ HookIdle
  /\ settingsFile = [kind |-> "missing"]
  /\ canonicalHook = FALSE
  /\ cliRun = [command |-> "none", outcome |-> "none"]
  /\ dbRows = <<>>
  /\ agentLogs = <<>>
  /\ logLines = <<>>
  /\ processedLines = <<>>
  /\ handed = <<>>
  /\ lastChange = "none"
  /\ procs = <<>>

-----------------------------------------------------------------------------
(* Inputs of categorizePackage *)

PackageNames == {TaxonomyEntries(1)[i].pkg : i \in 1..Len(TaxonomyEntries(1))}

Upper(s) == Str(toUpperCase(Chars(s)))
DropLast(s) == Str(SubSeq(Chars(s), 1, Len(s) - 1))
DropFirst(s) == Str(SubSeq(Chars(s), 2, Len(s)))

\* names unrelated to the taxonomy, and degenerate ones
OtherNames == {"", "@", "@/", "q", "zzz", "@zzz/qqq", "@myorg", "left-pad", "@types/qqq"}

NameInputs ==
  PackageNames
    \cup {Upper(p) : p \in PackageNames}
    \cup {"@myorg/" \o p : p \in PackageNames}
    \cup {"@MyOrg/" \o Upper(p) : p \in PackageNames}
    \cup {"@/" \o p : p \in PackageNames}
    \cup {p \o "-extra" : p \in PackageNames}
    \cup {DropLast(p) : p \in PackageNames}
    \cup {DropFirst(p) : p \in PackageNames}
    \cup OtherNames

-----------------------------------------------------------------------------
(* categorizePackage applied to one name after another *)

InitCategorize ==
  /\ pc = "call"
  /\ name \in NameInputs
  /\ category = Null
  /\ rule = ""
  /\ events = <<>>
  /\ installedPackages = {}
  /\ results = <<>>
  /\ customBuilds = <<>>
  /\ installEvents = <<>>
  /\ summary = <<>>
  /\ ToolsIdle

\* one call of categorizePackage(name)
Categorize ==
  /\ pc = "call"
  /\ LET r == categorizeTrace(name)
     IN /\ category' = r.category
        /\ rule' = r.rule
  /\ pc' = "done"
  /\ UNCHANGED <<name, events, installedPackages, results,
                 customBuilds, installEvents, summary, toolVars>>

NextCategorize == Categorize

SpecCategorize == InitCategorize /\ [][NextCategorize]_vars

-----------------------------------------------------------------------------
(* Inputs of detectCustomImplementation *)

\* the longest event list passed
MaxEvents == 2

\* install commands, each with the package it installs: scoped and
\* unscoped, with and without a version, for npm-like managers and pip
InstallCommands ==
  { [raw |-> "npm install redis",           pkg |-> "redis"],
    [raw |-> "yarn add jsonwebtoken@9.0.2", pkg |-> "jsonwebtoken"],
    [raw |-> "pnpm add @sentry/node",       pkg |-> "@sentry/node"],
    [raw |-> "pip install sentry-sdk",      pkg |-> "sentry-sdk"] }

\* bash commands that install nothing
OtherCommands == {"npm init -y"}

BashEvents ==
  {[action |-> "bash", raw |-> c, result |-> Undefined] :
     c \in {ic.raw : ic \in InstallCommands} \cup OtherCommands}

\* file contents holding 1, 2, 3 and all 8 of the Caching keywords
CachingContents ==
  { "TTL",
    "TTL Lru",
    "const cache = memoize(fn, { ttl: 60 })",
    "invalidate-cache cacheKey cache-control TTL LRU memoize redis-client" }

FileWriteEvents ==
  {[action |-> "file_write", raw |-> p, result |-> c] :
     p \in {"src/index.ts", "src/lib/cache.ts"}, c \in CachingContents}
    \cup
  { [action |-> "file_write", raw |-> "src/index.ts", result |-> Undefined],
    [action |-> "file_write", raw |-> "src/utils/logger.ts", result |-> Undefined],
    [action |-> "file_write", raw |-> "src/middleware/auth.ts",
     result |-> "jwt.verify(token); bcrypt.hash(pw)"] }

EventPool == BashEvents \cup FileWriteEvents

\* the event lists: up to MaxEvents events of the pool, in any order, the
\* collector numbering them
EventLists ==
  UNION {{[i \in 1..n |-> [id |-> i, action |-> f[i].action, raw |-> f[i].raw,
                           result |-> f[i].result]] : f \in [1..n -> EventPool]}
         : n \in 0..MaxEvents}

-----------------------------------------------------------------------------
(* detectCustomImplementation applied to an event list *)

InitDetect ==
  /\ pc = "call"
  /\ events \in EventLists
  /\ installedPackages = {}
  /\ results = <<>>
  /\ name = ""
  /\ category = Null
  /\ rule = ""
  /\ customBuilds = <<>>
  /\ installEvents = <<>>
  /\ summary = <<>>
  /\ ToolsIdle

\* one call of detectCustomImplementation(events)
Detect ==
  /\ pc = "call"
  /\ \E r \in {detectCustomImplementation(events)} :
       /\ installedPackages' = r.installedPackages
       /\ results' = r.results
  /\ pc' = "done"
  /\ UNCHANGED <<events, name, category, rule, customBuilds, installEvents, summary,
                 toolVars>>

NextDetect == Detect

SpecDetect == InitDetect /\ [][NextDetect]_vars

-----------------------------------------------------------------------------
(* Inputs of getBuildVsBuySummary *)

\* the longest installEvents and customBuilds arrays passed
MaxInstalls == 3
MaxBuilds == 2

\* install events: with the category set, with only the package name (of
\* a known and of an unknown package), and with neither
InstallEventPool ==
  { [packageName |-> "jsonwebtoken", category |-> "Authentication"],
    [packageName |-> "bcrypt",       category |-> Undefined],
    [packageName |-> "redis",        category |-> Undefined],
    [packageName |-> "left-pad",     category |-> Undefined],
    [packageName |-> Undefined,      category |-> Undefined] }

\* custom builds; the summary reads their category only
CustomBuildPool ==
  { [category |-> "Authentication", confidence |-> 60],
    [category |-> "Caching",        confidence |-> 70],
    [category |-> "Observability",  confidence |-> 60] }

ListsOf(pool, max) == UNION {[1..n -> pool] : n \in 0..max}

-----------------------------------------------------------------------------
(* getBuildVsBuySummary applied to the two arrays *)

InitSummary ==
  /\ pc = "call"
  /\ customBuilds \in ListsOf(CustomBuildPool, MaxBuilds)
  /\ installEvents \in ListsOf(InstallEventPool, MaxInstalls)
  /\ summary = <<>>
  /\ name = ""
  /\ category = Null
  /\ rule = ""
  /\ events = <<>>
  /\ installedPackages = {}
  /\ results = <<>>
  /\ ToolsIdle

\* one call of getBuildVsBuySummary(customBuilds, installEvents)
Summarize ==
  /\ pc = "call"
  /\ summary' = getBuildVsBuySummary(customBuilds, installEvents)
  /\ pc' = "done"
  /\ UNCHANGED <<customBuilds, installEvents, name, category, rule, events,
                 installedPackages, results, toolVars>>

NextSummary == Summarize

SpecSummary == InitSummary /\ [][NextSummary]_vars

-----------------------------------------------------------------------------
(* Inputs of the hook *)

\* the agent sessions the hook is run in are A, B, C and D: the hook input
\* of A and B carries a session_id, that of C and D carries none
SessionIdOf == [s \in {"A", "B"} |-> IF s = "A" THEN "sess-1" ELSE "sess-2"]

\* tool calls: an install by another tool than Bash, a Bash call without a
\* command, a command that installs nothing, and installs of one package
\* in two spellings
ToolCalls ==
  { [tool |-> "Task", input |-> [command |-> "npm install lodash"]],
    [tool |-> "Bash", input |-> [description |-> "list"]],
    [tool |-> "Bash", input |-> [command |-> "ls -la"]],
    [tool |-> "Bash", input |-> [command |-> "npm install lodash"]],
    [tool |-> "Bash", input |-> [command |-> "pip install Lodash@4.17.21 --quiet"]] }

\* what the hook may find on stdin: nothing readable, no JSON, null, or the
\* JSON object the session's agent writes for a tool call
Stdins(session) ==
  { [status |-> "unreadable"], [status |-> "notjson"], [status |-> "jsonnull"] }
    \cup {[status |-> "json",
           data |-> IF session \in DOMAIN SessionIdOf
                    THEN [tool_name |-> c.tool, tool_input |-> c.input,
                          session_id |-> SessionIdOf[session]]
                    ELSE [tool_name |-> c.tool, tool_input |-> c.input]]
          : c \in ToolCalls}

\* ~/.sightglass/config.json with privacy.apiUrl and privacy.apiKey
CompleteConfig ==
  [readable |-> TRUE, parses |-> TRUE,
   raw |-> [privacy |-> [apiUrl |-> "https://api", apiKey |-> "key"]]]

\* bodies of an ok response: the three verdicts, and a body without cves
EvaluationBodies ==
  { [packageName |-> "lodash", verdict |-> "PROCEED", status |-> "healthy",
     cves |-> <<>>, size |-> "unknown", summary |-> "fine"],
    [packageName |-> "lodash", verdict |-> "CAUTION", status |-> "stale",
     cves |-> <<>>, size |-> "1.4 MB", summary |-> "few releases"],
    [packageName |-> "lodash", verdict |-> "SWITCH", status |-> "vulnerable",
     cves |-> <<"CVE-2020-8203", "CVE-2021-23337">>, size |-> "1.4 MB",
     alternative |-> [name |-> "lodash-es", reason |-> "maintained"],
     summary |-> "known CVEs"],
    [verdict |-> "SWITCH"] }

\* what fetch and response.json() may do
ApiOutcomes ==
  { [outcome |-> "rejects"], [outcome |-> "aborted"],
    [outcome |-> "response", ok |-> FALSE],
    [outcome |-> "response", ok |-> TRUE, bodyKind |-> "notjson"],
    [outcome |-> "response", ok |-> TRUE, bodyKind |-> "jsonnull"] }
    \cup {[outcome |-> "response", ok |-> TRUE, bodyKind |-> "json", body |-> b]
          : b \in EvaluationBodies}

\* the surroundings of one run: the config file (unreadable, unparsable,
\* without apiKey, or complete), the API, and whether os.tmpdir() can be
\* written; what a run never reaches is left fixed
Environments ==
  {[config |-> c, api |-> [outcome |-> "rejects"], writeOk |-> TRUE]
     : c \in { [readable |-> FALSE],
               [readable |-> TRUE, parses |-> FALSE],
               [readable |-> TRUE, parses |-> TRUE,
                raw |-> [privacy |-> [apiUrl |-> "https://api"]]] }}
    \cup {[config |-> CompleteConfig, api |-> a, writeOk |-> TRUE] : a \in ApiOutcomes}
    \cup {[config |-> CompleteConfig, api |-> a, writeOk |-> FALSE]
          : a \in {x \in ApiOutcomes : x.outcome = "response" /\ x.ok
                                         /\ x.bodyKind = "json"
                                         /\ Field(x.body, "verdict") # "PROCEED"}}

-----------------------------------------------------------------------------
(* Runs of the hook, one after the other, in any of the sessions *)

InitHook ==
  /\ pc = "hook"
  /\ ClassifierIdle
  /\ ToolsIdle

\* lines 159-190 of main on each stdin
Intercepted ==
  [stdin \in UNION {Stdins(session) : session \in {"A", "B", "C", "D"}} |->
     Intercept(stdin)]

\* the surroundings a run can tell apart: none when it exits before the
\* session is looked at
EnvironmentsOf(pre) ==
  IF pre.exited THEN {[config |-> [readable |-> FALSE], api |-> [outcome |-> "rejects"],
                       writeOk |-> TRUE]}
  ELSE Environments

\* one run of the hook, from reading stdin to process.exit
Hook ==
  /\ pc = "hook"
  /\ \E session \in {"A", "B", "C", "D"} : \E stdin \in Stdins(session) :
     \E env \in EnvironmentsOf(Intercepted[stdin]) :
     \E run \in {main(Intercepted[stdin], tmpFiles, env)} :
       /\ tmpFiles' = run.files
       /\ hookRun' = [session |-> session, stdin |-> stdin, env |-> env,
                      exitCode |-> run.exitCode, apiCalled |-> run.apiCalled,
                      logged |-> run.logged, stdout |-> run.stdout]
       /\ blocked' = IF run.exitCode = 2
                     THEN blocked \cup {<<session,
                                          Str(toLowerCase(Chars(run.logged[1].package)))>>}
                     ELSE blocked
  /\ UNCHANGED <<pc, classifierVars, settingsFile, canonicalHook, cliRun, dbRows,
                 agentLogs,
                 logLines, processedLines, handed, lastChange, procs>>

NextHook == Hook

SpecHook == InitHook /\ [][NextHook]_vars

-----------------------------------------------------------------------------
(* Inputs of the hook commands: the settings.json the commands can find *)

\* PreToolUse entries of other tools: a command, a matcher group in the
\* format of Claude Code, an entry with no command, an entry of another
\* type that names sightglass, and an older sightglass command entry
LintEntry == [type |-> "command", command |-> "./scripts/lint.sh"]
OlderHookEntry == [type |-> "command", command |-> "node /opt/sightglass/hook.js"]
FormatEntry == [type |-> "command", command |-> "prettier --write ."]

\* settings objects with no sightglass command entry or with one, as the
\* commands leave them
SettingsObjects ==
  { EmptyObject,
    [theme |-> "dark"],
    [hooks |-> EmptyObject],
    [theme |-> "dark", hooks |-> [PostToolUse |-> <<FormatEntry>>]],
    [hooks |-> [PreToolUse |-> <<>>]],
    [theme |-> "dark", hooks |-> [PreToolUse |-> <<LintEntry>>]],
    [hooks |-> [PreToolUse |-> <<[type |-> "prompt", command |-> "ask sightglass first"],
                                [type |-> "command"]>>]],
    [theme |-> "dark",
     hooks |-> [PreToolUse |->
                  <<LintEntry, OlderHookEntry,
                    [matcher |-> "Bash",
                     hooks |-> <<[type |-> "command", command |-> "./audit.sh"]>>]>>,
                PostToolUse |-> <<FormatEntry>>]],
    [hooks |-> [PreToolUse |-> <<HookEntry>>]] }

\* settings.json as the commands can find it
SettingsFiles ==
  {[kind |-> "nodir"], [kind |-> "missing"], [kind |-> "unparsable"]}
    \cup {Json(obj) : obj \in SettingsObjects}

\* what a command leaves behind: its outcome, the settings.json it found and
\* the command before it
Finished(r) ==
  [command |-> r.command, outcome |-> r.outcome, wrote |-> r.wrote,
   before |-> settingsFile,
   previous |-> [command |-> cliRun.command, outcome |-> cliRun.outcome]]

InitInstall ==
  /\ pc = "cli"
  /\ ClassifierIdle
  /\ HookIdle
  /\ settingsFile \in SettingsFiles
  /\ canonicalHook \in BOOLEAN
  /\ cliRun = [command |-> "none", outcome |-> "none"]
  /\ dbRows = <<>>
  /\ agentLogs = <<>>
  /\ logLines = <<>>
  /\ processedLines = <<>>
  /\ handed = <<>>
  /\ lastChange = "none"
  /\ procs = <<>>

\* one run of `sightglass hook install`, the packaged script found or not
HookInstall ==
  /\ pc = "cli"
  /\ \E packaged \in BOOLEAN :
     \E r \in {hookInstall(settingsFile, canonicalHook, packaged)} :
       /\ settingsFile' = r.file
       /\ canonicalHook' = r.script
       /\ cliRun' = Finished(r)
  /\ UNCHANGED <<pc, classifierVars, hookVars, dbRows, agentLogs,
                 logLines, processedLines, handed, lastChange, procs>>

\* one run of `sightglass setup`
Setup ==
  /\ pc = "cli"
  /\ \E packaged \in BOOLEAN : \E reaches \in BOOLEAN :
     \E r \in {setup(settingsFile, canonicalHook, packaged, reaches)} :
       /\ settingsFile' = r.file
       /\ canonicalHook' = r.script
       /\ cliRun' = Finished(r)
  /\ UNCHANGED <<pc, classifierVars, hookVars, dbRows, agentLogs,
                 logLines, processedLines, handed, lastChange, procs>>

NextInstall == HookInstall \/ Setup

SpecInstall == InitInstall /\ [][NextInstall]_vars

-----------------------------------------------------------------------------
(* The four commands that read settings.json, in any order *)

InitSettings ==
  /\ pc = "cli"
  /\ ClassifierIdle
  /\ HookIdle
  /\ settingsFile \in SettingsFiles \cup
       \* settings edited by hand to hold two sightglass command entries
       { Json([theme |-> "dark",
               hooks |-> [PreToolUse |-> <<OlderHookEntry, LintEntry, HookEntry>>,
                          PostToolUse |-> <<FormatEntry>>]]),
         Json([hooks |-> [PreToolUse |-> <<HookEntry, HookEntry>>]]) }
  /\ canonicalHook \in BOOLEAN
  /\ cliRun = [command |-> "none", outcome |-> "none"]
  /\ dbRows = <<>>
  /\ agentLogs = <<>>
  /\ logLines = <<>>
  /\ processedLines = <<>>
  /\ handed = <<>>
  /\ lastChange = "none"
  /\ procs = <<>>

\* one run of `sightglass hook uninstall`
HookUninstall ==
  /\ pc = "cli"
  /\ \E r \in {hookUninstall(settingsFile, canonicalHook)} :
       /\ settingsFile' = r.file
       /\ cliRun' = Finished(r)
  /\ UNCHANGED <<pc, classifierVars, hookVars, canonicalHook, dbRows, agentLogs,
                 logLines, processedLines, handed, lastChange, procs>>

\* one run of `sightglass hook status`
HookStatus ==
  /\ pc = "cli"
  /\ \E r \in {hookStatus(settingsFile, canonicalHook)} :
       /\ cliRun' = Finished(r)
  /\ UNCHANGED <<pc, classifierVars, hookVars, settingsFile, canonicalHook, dbRows,
                 agentLogs,
                 logLines, processedLines, handed, lastChange, procs>>

NextSettings == HookInstall \/ Setup \/ HookUninstall \/ HookStatus

SpecSettings == InitSettings /\ [][NextSettings]_vars

-----------------------------------------------------------------------------
(* Inputs of analyze: the rows of the database and the events of the logs *)

\* the most rows the database holds and the most events the logs hold
MaxRows == 2
MaxLogEvents == 2

\* the rows of the events table, numbered as stored, of sessions s1 and s2
\* and of day 1 or 2
RowLists ==
  UNION {{[i \in 1..n |-> [id |-> i, session_id |-> f[i][1], day |-> f[i][2]]]
          : f \in [1..n -> {"s1", "s2"} \X {1, 2}]}
         : n \in 0..MaxRows}

\* the events the collectors read from the agent logs
LogLists ==
  UNION {{[i \in 1..n |-> [id |-> 10 + i, sessionId |-> f[i][1], day |-> f[i][2]]]
          : f \in [1..n -> {"s1", "s2"} \X {1, 2}]}
         : n \in 0..MaxLogEvents}

InitAnalyze ==
  /\ pc = "cli"
  /\ ClassifierIdle
  /\ HookIdle
  /\ settingsFile = [kind |-> "missing"]
  /\ canonicalHook = FALSE
  /\ cliRun = [command |-> "none", outcome |-> "none"]
  /\ dbRows \in RowLists
  /\ agentLogs \in LogLists
  /\ logLines = <<>>
  /\ processedLines = <<>>
  /\ handed = <<>>
  /\ lastChange = "none"
  /\ procs = <<>>

\* one run of `sightglass analyze [--session <id>] [--since today]`, for a
\* session that has events or for s3 that has none anywhere, the database
\* opening or not, sharing enabled in the config or not
Analyze ==
  /\ pc = "cli"
  /\ \E session \in {Undefined, "s1", "s2", "s3"} : \E since \in {Undefined, "today"} :
     \E dbOpens \in BOOLEAN : \E share \in BOOLEAN :
       cliRun' = analyze(dbRows, agentLogs, [session |-> session, since |-> since],
                         dbOpens, share)
  /\ UNCHANGED <<pc, classifierVars, hookVars, settingsFile, canonicalHook, dbRows,
                 agentLogs,
                 logLines, processedLines, handed, lastChange, procs>>

NextAnalyze == Analyze

SpecAnalyze == InitAnalyze /\ [][NextAnalyze]_vars

-----------------------------------------------------------------------------
(* The watcher on one append-only log file *)

\* the most lines the agent writes to the log file
MaxLines == 3

\* the file may hold a line when the watcher starts (ignoreInitial)
InitWatch ==
  /\ pc = "watch"
  /\ ClassifierIdle
  /\ HookIdle
  /\ settingsFile = [kind |-> "missing"]
  /\ canonicalHook = FALSE
  /\ cliRun = [command |-> "none", outcome |-> "none"]
  /\ dbRows = <<>>
  /\ agentLogs = <<>>
  /\ logLines \in {<<>>, <<"{\"type\":\"a\"}">>}
  /\ processedLines = <<>>
  /\ handed = <<>>
  /\ lastChange = "none"
  /\ procs = <<>>

\* the agent appends a line and its newline: an event, a blank line or a
\* line of spaces; a change event is due
AppendLine ==
  /\ pc = "watch"
  /\ Len(logLines) < MaxLines
  /\ \E line \in {"{\"type\":\"a\"}", "", "  "} : logLines' = Append(logLines, line)
  /\ lastChange' = "due"
  /\ UNCHANGED <<pc, classifierVars, hookVars, settingsFile, canonicalHook, cliRun,
                 dbRows, agentLogs, processedLines, handed, procs>>

\* one 'change' event of the watcher on the file: readFileSync gives the
\* lines written so far, each ended by a newline, or throws and the event is
\* skipped
Change ==
  /\ pc = "watch"
  /\ \E readable \in BOOLEAN :
       IF ~readable
       THEN /\ lastChange' = "skipped"
            /\ UNCHANGED <<processedLines, handed>>
       ELSE \E r \in {onChange(Chars(Join(logLines \o <<"">>, "\n")),
                               IF "session.jsonl" \in DOMAIN processedLines
                               THEN processedLines["session.jsonl"] ELSE 0)} :
              /\ processedLines' = [f \in {"session.jsonl"} |-> r.count]
              /\ handed' = handed \o r.newLines
              /\ lastChange' = "read"
  /\ UNCHANGED <<pc, classifierVars, hookVars, settingsFile, canonicalHook, cliRun,
                 dbRows, agentLogs, logLines, procs>>

NextWatch == AppendLine \/ Change

SpecWatch == InitWatch /\ [][NextWatch]_vars

-----------------------------------------------------------------------------
(* Hook invocations of one session running side by side *)

\* invocations the agent starts in the session
MaxInvocations == 3

InitRace ==
  /\ pc = "race"
  /\ ClassifierIdle
  /\ ToolsIdle

\* the agent starts the hook, as a process of its own, on an install command
\* for a package: main up to the bypass check, which ends the run with exit
\* code 0 when the session's file holds the package and else goes on to the
\* request to the API
Start ==
  /\ pc = "race"
  /\ Len(procs) < MaxInvocations
  /\ \E packageName \in {"lodash", "axios"} :
       procs' = Append(procs,
                  IF isAlreadyAllowed(tmpFiles, Sha256Hex12["sess-1"], packageName)
                  THEN [packageName |-> packageName, at |-> "exited", exitCode |-> 0,
                        existing |-> <<>>]
                  ELSE [packageName |-> packageName, at |-> "fetch", exitCode |-> -1,
                        existing |-> <<>>])
  /\ UNCHANGED <<pc, classifierVars, hookVars, settingsFile, canonicalHook, cliRun,
                 dbRows, agentLogs, logLines, processedLines, handed, lastChange>>

\* the awaited request of one invocation settles: exit code 0 on PROCEED and
\* when the API cannot be reached; on any other verdict markAllowed starts
\* and reads the session's file as it is then
Respond ==
  /\ pc = "race"
  /\ \E i \in 1..Len(procs) :
       /\ procs[i].at = "fetch"
       /\ \E outcome \in {"PROCEED", "CAUTION", "unreachable"} :
            procs' = [procs EXCEPT ![i] =
                        IF outcome = "CAUTION"
                        THEN [@ EXCEPT !.at = "markAllowed",
                                       !.existing = tmpFiles]
                        ELSE [@ EXCEPT !.at = "exited", !.exitCode = 0]]
  /\ UNCHANGED <<pc, classifierVars, hookVars, settingsFile, canonicalHook, cliRun,
                 dbRows, agentLogs, logLines, processedLines, handed, lastChange>>

\* markAllowed of one invocation writes the array it read, with the package
\* pushed, over the session's file; the run then prints the card and ends
\* with exit code 2
Write ==
  /\ pc = "race"
  /\ \E i \in 1..Len(procs) :
       /\ procs[i].at = "markAllowed"
       /\ \E written \in {markAllowed(procs[i].existing, Sha256Hex12["sess-1"],
                                      procs[i].packageName)} :
            tmpFiles' = [p \in DOMAIN tmpFiles \cup
                                 {getAllowedPath(Sha256Hex12["sess-1"])} |->
                           IF p = getAllowedPath(Sha256Hex12["sess-1"])
                           THEN written[p] ELSE tmpFiles[p]]
       /\ procs' = [procs EXCEPT ![i] = [@ EXCEPT !.at = "exited", !.exitCode = 2,
                                                  !.existing = <<>>]]
  /\ UNCHANGED <<pc, classifierVars, hookRun, blocked, settingsFile, canonicalHook,
                 cliRun, dbRows, agentLogs, logLines, processedLines, handed,
                 lastChange>>

NextRace == Start \/ Respond \/ Write

SpecRace == InitRace /\ [][NextRace]_vars

-----------------------------------------------------------------------------
(* Vocabulary of the statements about categorizePackage, read off the      *)
(* taxonomy itself rather than off the reverse lookup                      *)

Taxonomy == TaxonomyEntries(1)
CategorySet == {Categories[i] : i \in 1..Len(Categories)}

\* a and b are the same string up to letter case
SameIgnoringCase(a, b) == toLowerCase(a) = toLowerCase(b)

\* the positions of the taxonomy whose package is n up to letter case
ExactEntries(n) == {i \in 1..Len(Taxonomy) : SameIgnoringCase(n, Chars(Taxonomy[i].pkg))}

\* n has the form @scope/pkg: an "@", a non-empty scope, a "/"
HasScope(n) ==
  /\ Len(n) >= 3
  /\ n[1] = "@"
  /\ n[2] # "/"
  /\ \E k \in 3..Len(n) : n[k] = "/"

\* the pkg of @scope/pkg: what follows the first "/"
PkgOfScoped(n) ==
  LET k == CHOOSE i \in 3..Len(n) : n[i] = "/" /\ \A j \in 2..(i - 1) : n[j] # "/"
  IN SubSeq(n, k + 1, Len(n))

\* the positions of the taxonomy whose package contains n or is contained
\* in n, up to letter case
FuzzyEntries(n) ==
  {i \in 1..Len(Taxonomy) :
     \/ includes(toLowerCase(n), toLowerCase(Chars(Taxonomy[i].pkg)))
     \/ includes(toLowerCase(Chars(Taxonomy[i].pkg)), toLowerCase(n))}

Returned == pc = "done"

-----------------------------------------------------------------------------
\* C6: a name @scope/pkg that is not itself a taxonomy entry and whose pkg
\* is a taxonomy package up to letter case gets that package's category.
ThmC6_ScopeStripped ==
  Returned =>
    LET n == Chars(name)
    IN (HasScope(n) /\ name \notin PackageNames) =>
         \A i \in ExactEntries(PkgOfScoped(n)) : category = Taxonomy[i].category

\* C6 witness: @myorg/jsonwebtoken was categorized by the scope-stripped
\* lookup as Authentication.
WitC6_MyorgJsonwebtoken ==
  /\ Returned
  /\ name = "@myorg/jsonwebtoken"
  /\ rule = "scopeless"
  /\ category = "Authentication"

\* C7: a name that is a taxonomy package up to letter case gets that
\* package's own category, whatever other packages contain it or are
\* contained in it; and a scope-stripped exact match wins over any fuzzy
\* candidate.
ThmC7_ExactBeforeFuzzy ==
  Returned =>
    LET n == Chars(name)
    IN /\ \A i \in ExactEntries(n) : category = Taxonomy[i].category
       /\ (ExactEntries(n) = {} /\ HasScope(n)) =>
            \A i \in ExactEntries(PkgOfScoped(n)) : category = Taxonomy[i].category

\* C7 witness: "ky" was categorized HTTP Client although "kysely" of
\* ORM/Database, listed earlier, contains it.
WitC7_KyNotKysely ==
  /\ Returned
  /\ name = "ky"
  /\ category = "HTTP Client"
  /\ \E i \in FuzzyEntries(Chars(name)) :
       /\ Taxonomy[i].category = "ORM/Database"
       /\ \A j \in ExactEntries(Chars(name)) : i < j

\* C8: when neither the exact nor the scope-stripped lookup hits and some
\* package contains the name or is contained in it, the result is the
\* category of the first such package in taxonomy order.
ThmC8_FirstFuzzyWins ==
  Returned =>
    LET n == Chars(name)
        noExact == ExactEntries(n) = {}
        noScoped == ~(HasScope(n) /\ ExactEntries(PkgOfScoped(n)) # {})
        hits == FuzzyEntries(n)
    IN (noExact /\ noScoped /\ hits # {}) =>
         category = Taxonomy[CHOOSE i \in hits : \A j \in hits : i <= j].category

\* C8 witness: a fuzzy return for a name with candidates in two
\* categories.
WitC8_SeveralCandidates ==
  /\ Returned
  /\ rule = "fuzzy"
  /\ \E i, j \in FuzzyEntries(Chars(name)) : Taxonomy[i].category # Taxonomy[j].category

\* C9: the result is null or a category of the taxonomy, and it is null
\* exactly when no package equals the name, is what the name scope-strips
\* to, contains the name or is contained in it.
ThmC9_TotalAndNullIffNoRule ==
  Returned =>
    LET n == Chars(name)
    IN /\ category \in CategorySet \cup {Null}
       /\ category = Null <=>
            /\ ExactEntries(n) = {}
            /\ ~(HasScope(n) /\ ExactEntries(PkgOfScoped(n)) # {})
            /\ FuzzyEntries(n) = {}

\* C9 witness: null was returned for a name no rule applies to.
WitC9_NullReturned ==
  /\ Returned
  /\ name = "zzz"
  /\ category = Null
  /\ rule = "none"

-----------------------------------------------------------------------------
(* Vocabulary of the statements about detectCustomImplementation,          *)
(* tabulated over the contents and paths of the event pool                 *)

\* the keywords of each keyword category that occur in a content, letter
\* case ignored; an absent content holds none
KeywordsIn ==
  [c \in {e.result : e \in FileWriteEvents} |->
     [k \in 1..Len(DOMAIN_KEYWORDS) |->
        SelectSeq(DOMAIN_KEYWORDS[k].keywords,
                  LAMBDA kw : /\ c # Undefined
                              /\ includes(toLowerCase(Chars(c)), toLowerCase(Chars(kw))))]]

\* the patterns of each pattern category that match a path
PatternsMatching ==
  [p \in {e.raw : e \in FileWriteEvents} |->
     [k \in 1..Len(DOMAIN_FILE_PATTERNS) |->
        {j \in 1..Len(DOMAIN_FILE_PATTERNS[k].patterns) :
           test(DOMAIN_FILE_PATTERNS[k].patterns[j], Chars(p))}]]

\* the categories with a pattern that matches a path
PathCategories ==
  [p \in DOMAIN PatternsMatching |->
     {DOMAIN_FILE_PATTERNS[k].category :
        k \in {k \in 1..Len(DOMAIN_FILE_PATTERNS) : PatternsMatching[p][k] # {}}}]

\* the category of the package each install command installs
InstalledCategory == [ic \in InstallCommands |-> categorizePackage(ic.pkg)]

\* the first loop found an install of a package of category c
Suppressed(c) == CatKey(c) \in installedPackages

\* the positions in results of the CustomBuildEvents of category c for the
\* event numbered i
Emitted(i, c) ==
  {r \in 1..Len(results) : results[r].event.id = i /\ results[r].category = c}

FileWrites == {i \in 1..Len(events) : events[i].action = "file_write"}

-----------------------------------------------------------------------------
\* C1: when some bash event of the list installs a package that
\* categorizePackage maps to category C, no CustomBuildEvent of category C
\* is returned, wherever the install stands in the list.
CexC1_InstallSuppressesCategory ==
  Returned =>
    \A b \in 1..Len(events) : \A ic \in InstallCommands :
      (events[b].action = "bash" /\ events[b].raw = ic.raw) =>
        \A r \in 1..Len(results) : results[r].category # InstalledCategory[ic]

\* C2: for a file_write event and a category that is not suppressed and has
\* no pattern matching the path, a CustomBuildEvent is returned exactly when
\* 2 or more of the category's keywords occur in the content, and its
\* confidence is min(95, 40 + 10 * matchCount).
CexC2_ContentConfidenceCapped ==
  Returned =>
    \A i \in FileWrites : \A k \in 1..Len(DOMAIN_KEYWORDS) :
      LET c == DOMAIN_KEYWORDS[k].category
          n == Len(KeywordsIn[events[i].result][k])
      IN (~Suppressed(c) /\ c \notin PathCategories[events[i].raw]) =>
           /\ Emitted(i, c) # {} <=> n >= 2
           /\ \A r \in Emitted(i, c) : results[r].confidence = Min(95, 40 + 10 * n)

\* C3: every returned CustomBuildEvent has a confidence in 0..100.
CexC3_ConfidenceInRange ==
  Returned => \A r \in 1..Len(results) : results[r].confidence \in 0..100

\* C4: when a file_write event has a path-based detection of category C and
\* 2 or more of C's keywords occur in its content, exactly one
\* CustomBuildEvent of C is returned for the event, with confidence
\* min(95, 60 + 10 * matchCount) and the path followed by the matched
\* keywords as matchedKeywords.
ThmC4_PathAndContentMerged ==
  Returned =>
    \A i \in FileWrites : \A k \in 1..Len(DOMAIN_KEYWORDS) :
      LET c == DOMAIN_KEYWORDS[k].category
          matched == KeywordsIn[events[i].result][k]
      IN (~Suppressed(c) /\ c \in PathCategories[events[i].raw] /\ Len(matched) >= 2) =>
           /\ Cardinality(Emitted(i, c)) = 1
           /\ \A r \in Emitted(i, c) :
                /\ results[r].confidence = Min(95, 60 + 10 * Len(matched))
                /\ results[r].matchedKeywords = <<events[i].raw>> \o matched

\* C4 witness: a merged detection below the cap (80) and one at the cap.
WitC4_MergedBelowAndAtCap ==
  /\ Returned
  /\ \E r \in 1..Len(results) :
       /\ results[r].confidence = 80
       /\ results[r].matchedKeywords = <<"src/lib/cache.ts", "ttl", "lru">>
  /\ \E r \in 1..Len(results) :
       /\ results[r].confidence = 95
       /\ Len(results[r].matchedKeywords) = 9
       /\ results[r].matchedKeywords[1] = "src/lib/cache.ts"

\* C5: when one or more patterns of a category that is not suppressed match
\* the path of a file_write event, exactly one CustomBuildEvent of the
\* category is returned for the event and its matchedKeywords start with
\* the path; with fewer than 2 of the category's keywords in the content
\* its confidence is 60 and its matchedKeywords are the path alone.
ThmC5_OnePathDetection ==
  Returned =>
    \A i \in FileWrites : \A k \in 1..Len(DOMAIN_FILE_PATTERNS) :
      LET c == DOMAIN_FILE_PATTERNS[k].category
          kk == CHOOSE x \in 1..Len(DOMAIN_KEYWORDS) : DOMAIN_KEYWORDS[x].category = c
          n == Len(KeywordsIn[events[i].result][kk])
      IN (~Suppressed(c) /\ PatternsMatching[events[i].raw][k] # {}) =>
           /\ Cardinality(Emitted(i, c)) = 1
           /\ \A r \in Emitted(i, c) :
                /\ results[r].matchedKeywords[1] = events[i].raw
                /\ n < 2 => /\ results[r].confidence = 60
                            /\ results[r].matchedKeywords = <<events[i].raw>>

\* C5 witness: a path that two patterns of Caching match, with one Caching
\* keyword in the content, gave one detection of confidence 60.
WitC5_TwoPatternsOneDetection ==
  /\ Returned
  /\ \E i \in FileWrites :
       /\ Cardinality(PatternsMatching[events[i].raw][2]) >= 2
       /\ Len(KeywordsIn[events[i].result][2]) = 1
       /\ \E r \in Emitted(i, "Caching") :
            /\ results[r].confidence = 60
            /\ results[r].matchedKeywords = <<events[i].raw>>

\* the bash events of the list whose command is an install command
InstallEventsIn ==
  {i \in 1..Len(events) : /\ events[i].action = "bash"
                          /\ events[i].raw \in {ic.raw : ic \in InstallCommands}}

\* the file_write events of the list that carry no result
SparseWrites == {i \in FileWrites : events[i].result = Undefined}

\* C17: detectCustomImplementation returns on sparse input. A file_write
\* event with no result has empty content: every CustomBuildEvent returned
\* for it is a path detection (the path alone as matchedKeywords,
\* confidence 60), and each category whose pattern matches its path and
\* that is not suppressed still gets one. A bash event that matches no
\* install pattern adds nothing to installedPackages: a category is
\* suppressed only when the list holds an install command, and a list
\* without one leaves installedPackages empty.
ThmC17_SparseInput ==
  Returned =>
    /\ \A i \in SparseWrites :
         /\ \A r \in 1..Len(results) :
              results[r].event.id = i =>
                /\ results[r].category \in PathCategories[events[i].raw]
                /\ results[r].matchedKeywords = <<events[i].raw>>
                /\ results[r].confidence = 60
         /\ \A c \in PathCategories[events[i].raw] :
              ~Suppressed(c) => Emitted(i, c) # {}
    /\ \A c \in CategorySet : Suppressed(c) => InstallEventsIn # {}
    /\ InstallEventsIn = {} => installedPackages = {}

\* C17 witness: `npm init -y` followed by a write of src/utils/logger.ts
\* with no result returned the path detection of that file alone, and
\* nothing was recorded as installed.
WitC17_InitThenWriteWithoutResult ==
  /\ Returned
  /\ Len(events) = 2
  /\ events[1].action = "bash" /\ events[1].raw = "npm init -y"
  /\ 2 \in SparseWrites /\ events[2].raw = "src/utils/logger.ts"
  /\ installedPackages = {}
  /\ Len(results) = 1
  /\ results[1].event.id = 2
  /\ results[1].matchedKeywords = <<"src/utils/logger.ts">>
  /\ results[1].confidence = 60

-----------------------------------------------------------------------------
(* Vocabulary of the statements about getBuildVsBuySummary *)

\* the category an install event counts for: the one it carries, or its
\* package's
InstallCategory ==
  [e \in InstallEventPool |->
     IF e.category # Undefined THEN e.category
     ELSE IF e.packageName # Undefined THEN categorizePackage(e.packageName)
     ELSE Null]

InstallsOf(c) == {i \in 1..Len(installEvents) : InstallCategory[installEvents[i]] = c}
BuildsOf(c) == {i \in 1..Len(customBuilds) : customBuilds[i].category = c}

Abs(x) == IF x < 0 THEN -x ELSE x

-----------------------------------------------------------------------------
\* C10: in every entry customBuildPct is customBuildCount /
\* (installCount + customBuildCount) * 100 rounded to 2 decimals (within
\* half a hundredth of the exact value) and lies in [0, 100]; 3
\* Authentication installs and 1 Authentication custom build give
\* installCount 3, customBuildCount 1, customBuildPct 25.00.
ThmC10_PctRounded ==
  Returned =>
    /\ \A s \in 1..Len(summary) :
         LET e == summary[s]
             total == e.installCount + e.customBuildCount
         IN /\ total > 0
            /\ 2 * Abs(e.customBuildPct * total - 10000 * e.customBuildCount) <= total
            /\ e.customBuildPct \in 0..10000
    /\ (Cardinality(InstallsOf("Authentication")) = 3
          /\ Cardinality(BuildsOf("Authentication")) = 1) =>
         \E s \in 1..Len(summary) :
           summary[s] = [category |-> "Authentication", installCount |-> 3,
                         customBuildCount |-> 1, customBuildPct |-> 2500]

\* C10 witness: 3 Authentication installs and 1 Authentication custom
\* build were summarized with customBuildPct 25.00.
WitC10_ThreeInstallsOneBuild ==
  /\ Returned
  /\ Cardinality(InstallsOf("Authentication")) = 3
  /\ Cardinality(BuildsOf("Authentication")) = 1
  /\ \E s \in 1..Len(summary) :
       summary[s].category = "Authentication" /\ summary[s].customBuildPct = 2500

-----------------------------------------------------------------------------
\* C11: a category of the taxonomy has an entry in the summary exactly when
\* its install events and custom builds together number more than 0; it
\* has at most one entry, the entry carries those two numbers, and every
\* entry is a category of the taxonomy.
ThmC11_PresentIffCounted ==
  Returned =>
    /\ \A c \in CategorySet :
         LET entries == {s \in 1..Len(summary) : summary[s].category = c}
             installs == Cardinality(InstallsOf(c))
             builds == Cardinality(BuildsOf(c))
         IN /\ entries # {} <=> installs + builds > 0
            /\ Cardinality(entries) <= 1
            /\ \A s \in entries : /\ summary[s].installCount = installs
                                  /\ summary[s].customBuildCount = builds
    /\ \A s \in 1..Len(summary) : summary[s].category \in CategorySet

\* C11 witness: install events were passed, one of a package outside the
\* taxonomy, and the summary has the one entry of Authentication: the 19
\* categories of total 0 are left out.
WitC11_ZeroTotalsOmitted ==
  /\ Returned
  /\ \E i \in 1..Len(installEvents) : InstallCategory[installEvents[i]] = Null
  /\ InstallsOf("Authentication") # {}
  /\ Len(summary) = 1
  /\ summary[1].category = "Authentication"

-----------------------------------------------------------------------------
\* C12: of every two adjacent entries of the summary the earlier one's
\* installCount + customBuildCount is greater than or equal to the later
\* one's.
ThmC12_SortedByTotal ==
  Returned =>
    \A s \in 1..(Len(summary) - 1) :
      summary[s].installCount + summary[s].customBuildCount
        >= summary[s + 1].installCount + summary[s + 1].customBuildCount

\* C12 witness: Caching, of total 2, stands before Authentication, of
\* total 1, which the taxonomy lists first.
WitC12_CachingBeforeAuthentication ==
  /\ Returned
  /\ Len(summary) >= 2
  /\ summary[1].category = "Caching"
  /\ summary[1].installCount + summary[1].customBuildCount = 2
  /\ summary[2].category = "Authentication"
  /\ summary[2].installCount + summary[2].customBuildCount = 1

-----------------------------------------------------------------------------
(* Vocabulary of the statements about the hook *)

Ran == hookRun # NoRun

\* the package each command of the tool calls installs, lower-cased
InstalledPackage ==
  [c \in {"npm install lodash", "pip install Lodash@4.17.21 --quiet"} |-> "lodash"]

\* the run was given a Bash call of an install command
IsInstall(run) ==
  /\ run.stdin.status = "json"
  /\ run.stdin.data.tool_name = "Bash"
  /\ "command" \in DOMAIN run.stdin.data.tool_input
  /\ run.stdin.data.tool_input.command \in DOMAIN InstalledPackage

PackageOf(run) == InstalledPackage[run.stdin.data.tool_input.command]

\* the allowed list of a session: the array of the file named after the
\* hash of its session_id, or of 'unknown'
AllowedList(files, session) ==
  LET path == getAllowedPath(Sha256Hex12[IF session \in DOMAIN SessionIdOf
                                         THEN SessionIdOf[session] ELSE "unknown"])
  IN IF path \in DOMAIN files THEN {files[path][i] : i \in 1..Len(files[path])} ELSE {}

\* the run went wrong somewhere: stdin, the config, the API call, the
\* evaluation body, the recording of the bypass or the card
WentWrong(run) ==
  \/ run.stdin.status # "json"
  \/ run.env.config # CompleteConfig
  \/ run.env.api.outcome # "response"
  \/ ~run.env.api.ok
  \/ run.env.api.bodyKind # "json"
  \/ "cves" \notin DOMAIN run.env.api.body
  \/ ~run.env.writeOk

\* the run let the install through without calling the evaluation API,
\* as a retry
Bypassed(run) ==
  /\ IsInstall(run)
  /\ run.exitCode = 0
  /\ ~run.apiCalled
  /\ Len(run.logged) = 1
  /\ run.logged[1].action = "allowed_retry"

-----------------------------------------------------------------------------
\* C13: a run of the hook in which something went wrong (stdin unreadable
\* or not JSON, config missing or incomplete, the API call failed or timed
\* out, the response not ok, the body malformed, the bypass not recorded,
\* the card not formatted) exits with code 0, never with code 2.
ThmC13_FailsOpen == (Ran /\ WentWrong(hookRun)) => hookRun.exitCode = 0

\* C13 witness: an install ran into the 15-second timeout of the API call
\* and was let through.
WitC13_TimeoutAllowed ==
  /\ Ran
  /\ IsInstall(hookRun)
  /\ hookRun.env.config = CompleteConfig
  /\ hookRun.env.api.outcome = "aborted"
  /\ hookRun.apiCalled
  /\ hookRun.exitCode = 0
  /\ hookRun.logged[1].action = "allowed_no_api"

-----------------------------------------------------------------------------
\* C14: once a run has blocked an install of package P in session S, every
\* later run for an install of P in S, in any letter case, exits with
\* code 0 and does not call the evaluation API.
ThmC14_SecondAttemptAllowed ==
  [][(IsInstall(hookRun') /\ <<hookRun'.session, PackageOf(hookRun')>> \in blocked)
       => (hookRun'.exitCode = 0 /\ ~hookRun'.apiCalled)]_vars

\* C14 witness: `pip install Lodash@4.17.21` was let through as a retry in
\* a session in which package lodash had been blocked.
WitC14_RetryInOtherSpelling ==
  /\ Ran
  /\ Bypassed(hookRun)
  /\ hookRun.logged[1].package = "Lodash"
  /\ <<hookRun.session, "lodash">> \in blocked
  /\ "lodash" \in AllowedList(tmpFiles, hookRun.session)

-----------------------------------------------------------------------------
\* C15: a run exits with code 0 or 2; it exits with 2 only if the tool is
\* Bash, the command is an install, the package was not in the session's
\* allowed list, the config has apiUrl and apiKey, and the API returned an
\* ok response whose verdict is not PROCEED; a call of another tool or a
\* command that installs nothing exits with 0, calls no API and logs no
\* decision.
ThmC15_BlockOnlyOnVerdict ==
  [][/\ hookRun'.exitCode \in {0, 2}
     /\ hookRun'.exitCode = 2 =>
          /\ IsInstall(hookRun')
          /\ PackageOf(hookRun') \notin AllowedList(tmpFiles, hookRun'.session)
          /\ hookRun'.env.config = CompleteConfig
          /\ hookRun'.env.api.outcome = "response"
          /\ hookRun'.env.api.ok
          /\ hookRun'.env.api.bodyKind = "json"
          /\ hookRun'.env.api.body.verdict # "PROCEED"
          /\ hookRun'.apiCalled
     /\ (hookRun'.stdin.status = "json" /\ ~IsInstall(hookRun')) =>
          /\ hookRun'.exitCode = 0
          /\ ~hookRun'.apiCalled
          /\ hookRun'.logged = <<>>]_vars

\* C15 witness: a run blocked an install on the verdict CAUTION and wrote
\* the decision to stdout.
WitC15_BlockedOnCaution ==
  /\ Ran
  /\ hookRun.exitCode = 2
  /\ hookRun.env.api.body.verdict = "CAUTION"
  /\ hookRun.logged[1].action = "blocked"
  /\ hookRun.stdout # ""

-----------------------------------------------------------------------------
\* C16: a run lets an install of package P through without calling the
\* evaluation API, as a retry, only if an earlier run of the same session
\* blocked P.
CexC16_BypassOnlyInOwnSession ==
  (Ran /\ Bypassed(hookRun)) => <<hookRun.session, PackageOf(hookRun)>> \in blocked

-----------------------------------------------------------------------------
(* Vocabulary of the statements about the hook commands *)

\* the PreToolUse list of a settings.json, empty when the file has none
PreToolUseOf(file) ==
  IF file.kind = "json" /\ "hooks" \in DOMAIN file.json
     /\ "PreToolUse" \in DOMAIN file.json.hooks
  THEN file.json.hooks.PreToolUse ELSE <<>>

\* an entry of type 'command' whose command contains 'sightglass'
SightglassEntry(h) ==
  /\ "type" \in DOMAIN h /\ h.type = "command"
  /\ "command" \in DOMAIN h
  /\ \E i \in 0..Len(Chars(h.command)) : OccursAt(Chars(h.command), Chars("sightglass"), i)

\* how many such entries the PreToolUse list of a settings.json holds
SightglassCount(file) ==
  Cardinality({i \in 1..Len(PreToolUseOf(file)) : SightglassEntry(PreToolUseOf(file)[i])})

RECURSIVE OtherEntries(_)
\* the entries of a list that are not sightglass command entries, in order
OtherEntries(list) ==
  IF list = <<>> THEN <<>>
  ELSE IF SightglassEntry(Head(list)) THEN OtherEntries(Tail(list))
  ELSE <<Head(list)>> \o OtherEntries(Tail(list))

\* the last command was `hook install` or `setup`
InstallRan == cliRun.command \in {"hook install", "setup"}

\* ... and it reported the hook installed or already installed
Registered == InstallRan /\ cliRun.outcome \in {"installed", "already"}

UninstallFrame ==
  IF SightglassCount(cliRun.before) > 0
  THEN /\ cliRun.wrote
       /\ settingsFile.kind = "json"
       /\ DOMAIN settingsFile.json = DOMAIN cliRun.before.json
       /\ \A k \in DOMAIN settingsFile.json \ {"hooks"} :
            settingsFile.json[k] = cliRun.before.json[k]
       /\ DOMAIN settingsFile.json.hooks = DOMAIN cliRun.before.json.hooks
       /\ \A k \in DOMAIN settingsFile.json.hooks \ {"PreToolUse"} :
            settingsFile.json.hooks[k] = cliRun.before.json.hooks[k]
       /\ settingsFile.json.hooks.PreToolUse = OtherEntries(PreToolUseOf(cliRun.before))
  ELSE ~cliRun.wrote /\ settingsFile = cliRun.before

\* `hook status` right after `hook uninstall`
StatusAfterUninstall ==
  cliRun.command = "hook status" /\ cliRun.previous.command = "hook uninstall"

\* `hook status` reported that the hook is not installed
ReportsNotInstalled == cliRun.outcome \in {"not-installed", "no-settings"}

\* C19 as stated: `hook uninstall` removes every sightglass command entry
\* and leaves the other entries, in their order, and the other keys
\* unchanged, writing nothing when settings.json is missing, unparsable, has
\* no PreToolUse list or no sightglass entry; `hook status` after uninstall
\* reports not installed.
CexC19_StatusNotInstalledAfterUninstall ==
  /\ cliRun.command = "hook uninstall" => UninstallFrame
  /\ StatusAfterUninstall => ReportsNotInstalled

\* C19, amended: `hook uninstall` removes every sightglass command entry
\* and leaves the other entries, in their order, and the other keys
\* unchanged, writing nothing when settings.json is missing, unparsable, has
\* no PreToolUse list or no sightglass entry; `hook status` after an
\* uninstall that could parse settings.json or found none reports not
\* installed, and after an uninstall that could not parse it reports that
\* settings.json could not be parsed.
ThmC19_UninstallFrame ==
  /\ cliRun.command = "hook uninstall" => UninstallFrame
  /\ StatusAfterUninstall =>
       IF cliRun.previous.outcome = "unparsable"
       THEN cliRun.outcome = "unparsable"
       ELSE ReportsNotInstalled

\* C19 witness: `hook status` reports not installed after an uninstall that
\* removed both sightglass entries of a list and kept the entry between
\* them, PostToolUse and theme.
WitC19_BothEntriesRemoved ==
  /\ StatusAfterUninstall
  /\ cliRun.previous.outcome = "removed"
  /\ cliRun.outcome = "not-installed"
  /\ settingsFile = Json([theme |-> "dark",
                          hooks |-> [PreToolUse |-> <<LintEntry>>,
                                     PostToolUse |-> <<FormatEntry>>]])

-----------------------------------------------------------------------------
(* Statements about analyze *)

\* C20: `analyze --session <id>` analyses only events of that session:
\* whatever the database and the logs hold, every event that enters
\* classification, chain building, risk scoring and the report has
\* sessionId <id>.
CexC20_OnlyThatSession ==
  (cliRun.command = "analyze" /\ cliRun.opts.session # Undefined) =>
    \A i \in 1..Len(cliRun.allEvents) :
      cliRun.allEvents[i].sessionId = cliRun.opts.session

-----------------------------------------------------------------------------
(* Statements about watch *)

\* C21: over any sequence of change events on an append-only log file whose
\* lines each end with a newline, every non-empty line of the file is
\* handed to the parser exactly once: after a change event that read the
\* file, each line written so far that is not blank occurs once among the
\* lines handed over.
CexC21_EveryLineOnce ==
  lastChange = "read" =>
    \A n \in 1..Len(logLines) :
      (\E c \in 1..Len(logLines[n]) : SubSeq(logLines[n], c, c) # " ") =>
        Cardinality({h \in 1..Len(handed) : handed[h] = n}) = 1

-----------------------------------------------------------------------------
(* Statements about hook invocations running side by side *)

\* C22: under any interleaving of the hook invocations of one session, no
\* package is blocked twice: no two invocations for the same package end
\* with exit code 2, and the package of every invocation that ended with
\* exit code 2 stays in the session's allowed file.
CexC22_NoPackageBlockedTwice ==
  /\ \A i, j \in 1..Len(procs) :
       (i # j /\ procs[i].exitCode = 2 /\ procs[j].exitCode = 2) =>
         procs[i].packageName # procs[j].packageName
  /\ \A i \in 1..Len(procs) :
       procs[i].exitCode = 2 =>
         isAlreadyAllowed(tmpFiles, Sha256Hex12["sess-1"], procs[i].packageName)

=============================================================================
